---- MODULE Spec2Model ----
(***************************************************************************)
(* HFTools: the schema-driven ORM core (EntityTraits, the JSON codec, the  *)
(* prepared-statement builders and binders, the generic Repository) and    *)
(* the PostgreSQL connection pool.                                         *)
(*                                                                         *)
(* Values.  An int field is an integer.  A double field is an integer      *)
(* number of tenths (15 is 1.5), so that int <-> double conversions are    *)
(* not the identity.  A std::string field is a string.  A Timestamp field  *)
(* is a number of clock ticks since the epoch, TicksPerSec ticks to the    *)
(* second.                                                                 *)
(***************************************************************************)
EXTENDS Integers, Sequences, FiniteSets, TLC

VARIABLES
    T,        \* EntityTraits<T> of the entity type the Repository is instantiated over
    last,     \* the last operation: its name, argument, executor calls, outcome
    pool_,    \* PostgresConnectionPool::pool_, the idle queue
    mutex_,   \* PostgresConnectionPool::mutex_: the thread holding it, or NoThread
    waiting,  \* the threads blocked in cv_.wait
    pc,       \* each thread's position in borrow() / release()
    held,     \* each thread's unique_ptr<pqxx::connection> (or NoConn)
    call,     \* each thread's PostgresDatabase call in progress, and what its last one threw
    resultSet, \* a database::ResultSet: rows_ and currentRow_
    conn,     \* a database::Connection made by openConnection: its members and history
    reading,  \* a db::DBReader being stepped with next(), and the history of its calls
    cursor    \* history of resultSet: next() calls made, rows at the first, what the last returned

repoVars == <<T, last>>
poolVars == <<pool_, mutex_, waiting, pc, held, call>>
cursorVars == <<resultSet, cursor>>
vars == <<T, last, pool_, mutex_, waiting, pc, held, call, resultSet, cursor, conn, reading>>

-----------------------------------------------------------------------------
(* Bounds of the model.                                                    *)

MaxCols == 3        \* longest column list of a generated schema
MaxRows == 2        \* most rows an executor returns to queryMany
TicksPerSec == 2    \* clock ticks per second (sub-second resolution)
NThreads == 3       \* threads using the pool
PoolSize == 2       \* connections the pool is built with
IntBits == 3        \* width of int, in bits

-----------------------------------------------------------------------------
(* Column, EntityTraits.                                                   *)

Column(n, k) == [name |-> n, kind |-> k]

\* EntityTraits<FXInstrument2>
FXInstrument2Traits ==
    [tableName  |-> "FXInstrument2",
     primaryKey |-> "id",
     columns    |-> << Column("id", "int"),
                       Column("userId", "int"),
                       Column("instrumentId", "int"),
                       Column("side", "string"),
                       Column("quantity", "double"),
                       Column("price", "double"),
                       Column("timestamp", "string") >>]

\* The member lists other specializations of EntityTraits are generated
\* from: without and with a Timestamp member.
PlainColumns == << Column("id", "int"), Column("side", "string"), Column("price", "double") >>
TimedColumns ==
    << Column("id", "int"), Column("ts", "timestamp"),
       Column("side", "string"), Column("price", "double") >>

\* n columns of base, from its k-th on and around.
Rotation(base, k, n) == [i \in 1..n |-> base[((k + i - 2) % Len(base)) + 1]]

GenColumnLists ==
    UNION { { Rotation(base, k, n) :
                k \in 1..Len(base),
                n \in { m \in 1..MaxCols : m <= Len(base) } } :
            base \in { PlainColumns, TimedColumns } }

\* Any specialization: a non-empty tuple of distinctly named columns and a
\* primaryKey that names one of them ("id", where it is a column) or none.
GenTraits ==
    { [tableName |-> "trades", primaryKey |-> pk, columns |-> cs] :
        pk \in { "id", "rowid" }, cs \in GenColumnLists }

Traits == { FXInstrument2Traits } \cup GenTraits

NameList(cols) == [k \in 1..Len(cols) |-> cols[k].name]
ColNames(S) == { S.columns[i].name : i \in 1..Len(S.columns) }
HasKind(S, k) == \E i \in 1..Len(S.columns) : S.columns[i].kind = k
PkCount(S) == Cardinality({ i \in 1..Len(S.columns) : S.columns[i].name = S.primaryKey })

-----------------------------------------------------------------------------
(* Entities: one value per mapped member, of the member's type.            *)

\* The ids getById is called with.
IdVals == { 0, 42 }

\* T{} : every member at its default initializer.
DefaultVal(k) ==
    CASE k = "int" -> 0
      [] k = "double" -> 0
      [] k = "string" -> ""
      [] k = "timestamp" -> 0

KindOf(S, n) ==
    LET i == CHOOSE k \in 1..Len(S.columns) : S.columns[k].name = n
    IN  S.columns[i].kind

\* T obj;
DefaultEntity(S) == [n \in ColNames(S) |-> DefaultVal(KindOf(S, n))]

\* The entity whose members all hold their type's other sample value.
SampleEntity(S) ==
    [n \in ColNames(S) |->
        CASE KindOf(S, n) = "int" -> 42
          [] KindOf(S, n) = "double" -> 15
          [] KindOf(S, n) = "string" -> "BUY"
          [] KindOf(S, n) = "timestamp" -> TicksPerSec]

\* The objects of the entity type that are drawn: all members at their
\* default, all at the sample value, and the sample with one member reset.
Entities(S) ==
    { DefaultEntity(S), SampleEntity(S) }
        \cup { [SampleEntity(S) EXCEPT ![n] = DefaultVal(KindOf(S, n))] : n \in ColNames(S) }

-----------------------------------------------------------------------------
(* nlohmann::json values.  An object is a std::map: its members are kept   *)
(* sorted by key, whatever the order they were assigned in.                *)

\* A scalar carries its type, an integer payload and a string payload.
JNull == [t |-> "null", i |-> 0, s |-> ""]
JBool(b) == [t |-> "boolean", i |-> IF b THEN 1 ELSE 0, s |-> ""]
JInt(n) == [t |-> "int", i |-> n, s |-> ""]
JFloat(d) == [t |-> "float", i |-> d, s |-> ""]
JStr(x) == [t |-> "string", i |-> 0, s |-> x]
JObject(members) == [t |-> "object", kv |-> members]

\* std::less<std::string> on the keys that occur: byte-wise lexicographic order.
KeyOrder ==
    << "email", "id", "instrumentId", "price", "quantity", "role",
       "side", "timestamp", "ts", "userId", "username" >>

KeyRank(k) == CHOOSE i \in 1..Len(KeyOrder) : KeyOrder[i] = k

Keys(j) == IF j.t = "object" THEN [i \in 1..Len(j.kv) |-> j.kv[i][1]] ELSE <<>>

\* j.contains(key)
JsonContains(j, key) == j.t = "object" /\ \E i \in 1..Len(j.kv) : j.kv[i][1] = key

Thrown(e) == [ok |-> FALSE, err |-> e]
Returned(v) == [ok |-> TRUE, v |-> v]

\* j.at(key): type_error 304 on a value that is no object, out_of_range 403 on
\* an object without the key.
JsonAt(j, key) ==
    IF j.t # "object" THEN Thrown("json.type_error.304")
    ELSE IF ~JsonContains(j, key) THEN Thrown("json.out_of_range.403")
    ELSE Returned(j.kv[CHOOSE i \in 1..Len(j.kv) : j.kv[i][1] = key][2])

\* Mutant: the members kept in the order they were first assigned.
JsonSet_insertionOrder(j, key, v) ==
    LET kv == IF j.t = "object" THEN j.kv ELSE <<>>
    IN  IF \E i \in 1..Len(kv) : kv[i][1] = key
        THEN JObject([i \in 1..Len(kv) |-> IF kv[i][1] = key THEN <<key, v>> ELSE kv[i]])
        ELSE JObject(Append(kv, <<key, v>>))

\* j[key] = v on a json that is null or an object: null becomes an object, and
\* the member is inserted at its sorted place or overwritten.
JsonSet(j, key, v) ==
    LET kv == IF j.t = "object" THEN j.kv ELSE <<>>
        before == SelectSeq(kv, LAMBDA m : KeyRank(m[1]) < KeyRank(key))
        after == SelectSeq(kv, LAMBDA m : KeyRank(m[1]) > KeyRank(key))
    IN  JObject(before \o << <<key, v>> >> \o after)

\* static_cast<int>(double): truncation towards zero.
TruncToInt(d) == IF d >= 0 THEN d \div 10 ELSE -((-d) \div 10)

\* Mutant: a value of the wrong JSON type leaves the field at its default
\* instead of throwing.
GetTo_lenient(kind, j) ==
    CASE kind = "int" ->
           ( CASE j.t = "int" -> Returned(j.i)
               [] j.t = "float" -> Returned(TruncToInt(j.i))
               [] j.t = "boolean" -> Returned(j.i)
               [] OTHER -> Returned(0) )
      [] kind = "double" ->
           ( CASE j.t = "int" -> Returned(j.i * 10)
               [] j.t = "float" -> Returned(j.i)
               [] OTHER -> Returned(0) )
      [] kind = "string" ->
           ( CASE j.t = "string" -> Returned(j.s)
               [] OTHER -> Returned("") )
      [] OTHER -> Thrown("no from_json for this type")

\* j.get_to(field) for a field of the given type.  An int field takes any
\* JSON number or boolean through a static_cast; a double field any JSON
\* number; a std::string field a JSON string only.  Anything else is
\* type_error 302.
GetTo(kind, j) ==
    CASE kind = "int" ->
           ( CASE j.t = "int" -> Returned(j.i)
               [] j.t = "float" -> Returned(TruncToInt(j.i))
               [] j.t = "boolean" -> Returned(j.i)
               [] OTHER -> Thrown("json.type_error.302") )
      [] kind = "double" ->
           ( CASE j.t = "int" -> Returned(j.i * 10)
               [] j.t = "float" -> Returned(j.i)
               [] OTHER -> Thrown("json.type_error.302") )
      [] kind = "string" ->
           ( CASE j.t = "string" -> Returned(j.s)
               [] OTHER -> Thrown("json.type_error.302") )
      [] OTHER -> Thrown("no from_json for this type")

\* json(value) for a field of the given type.
ToJsonValue(kind, v) ==
    CASE kind = "int" -> JInt(v)
      [] kind = "double" -> JFloat(v)
      [] kind = "string" -> JStr(v)

-----------------------------------------------------------------------------
(* Auto JSON from metadata (the prepared-statement header).                *)

RECURSIVE autoToJsonFrom(_, _, _, _)
autoToJsonFrom(S, obj, i, j) ==
    IF i > Len(S.columns) THEN j
    ELSE LET col == S.columns[i]
         IN  autoToJsonFrom(S, obj, i + 1,
                            JsonSet(j, col.name, ToJsonValue(col.kind, obj[col.name])))

\* autoToJson(obj): j[col.name] = obj.*(col.member) for each column in turn.
autoToJson(S, obj) == autoToJsonFrom(S, obj, 1, JNull)

RECURSIVE autoFromJsonFrom(_, _, _, _)
autoFromJsonFrom(S, j, i, obj) ==
    IF i > Len(S.columns) THEN Returned(obj)
    ELSE LET col == S.columns[i]
             at == JsonAt(j, col.name)
             got == IF at.ok THEN GetTo(col.kind, at.v) ELSE at
         IN  IF ~got.ok THEN got
             ELSE autoFromJsonFrom(S, j, i + 1, [obj EXCEPT ![col.name] = got.v])

\* autoFromJson<T>(j): j.at(name).get_to(obj.*member) for each column in turn;
\* the first exception leaves the function.
\* Mutant: the loop over the columns starts one column late.
autoFromJson_skipFirst(S, j) == autoFromJsonFrom(S, j, 2, DefaultEntity(S))

autoFromJson(S, j) == autoFromJsonFrom(S, j, 1, DefaultEntity(S))

-----------------------------------------------------------------------------
(* SQL builders (prepared statements) and their parameter lists.           *)

\* First loop of buildInsertSQL: the column names, ", " before all but the first.
RECURSIVE InsertNames(_, _, _, _)
InsertNames(S, i, sql, first) ==
    IF i > Len(S.columns) THEN sql
    ELSE InsertNames(S, i + 1,
                     (IF ~first THEN sql \o ", " ELSE sql) \o S.columns[i].name,
                     FALSE)

\* Second loop of buildInsertSQL: "$" + std::to_string(index++) per column.
RECURSIVE InsertPlaceholders(_, _, _, _, _)
InsertPlaceholders(S, i, sql, first, index) ==
    IF i > Len(S.columns) THEN sql
    ELSE InsertPlaceholders(S, i + 1,
                            (IF ~first THEN sql \o ", " ELSE sql) \o "$" \o ToString(index),
                            FALSE, index + 1)

\* Mutant: the placeholders counted from 0.
buildInsertSQL_fromZero(S) ==
    LET head == InsertNames(S, 1, "INSERT INTO " \o S.tableName \o " (", TRUE) \o ") VALUES ("
    IN  InsertPlaceholders(S, 1, head, TRUE, 0) \o ")"

buildInsertSQL(S) ==
    LET head == InsertNames(S, 1, "INSERT INTO " \o S.tableName \o " (", TRUE) \o ") VALUES ("
    IN  InsertPlaceholders(S, 1, head, TRUE, 1) \o ")"

RECURSIVE InsertParamsFrom(_, _, _, _)
InsertParamsFrom(S, obj, i, params) ==
    IF i > Len(S.columns) THEN params
    ELSE InsertParamsFrom(S, obj, i + 1,
                          Append(params, ToJsonValue(S.columns[i].kind, obj[S.columns[i].name])))

buildInsertParams(S, obj) == InsertParamsFrom(S, obj, 1, <<>>)

\* The loop of buildUpdateSQL; it yields the text and the index it ends with.
RECURSIVE UpdateAssignments(_, _, _, _, _)
UpdateAssignments(S, i, sql, first, index) ==
    IF i > Len(S.columns) THEN [sql |-> sql, index |-> index]
    ELSE IF S.columns[i].name = S.primaryKey
         THEN UpdateAssignments(S, i + 1, sql, first, index)
         ELSE UpdateAssignments(S, i + 1,
                  (IF ~first THEN sql \o ", " ELSE sql)
                      \o S.columns[i].name \o "=$" \o ToString(index),
                  FALSE, index + 1)

\* Mutant: WHERE numbered by the column count, not by the running index.
buildUpdateSQL_whereAtN(S) ==
    LET set == UpdateAssignments(S, 1, "UPDATE " \o S.tableName \o " SET ", TRUE, 1)
    IN  set.sql \o " WHERE " \o S.primaryKey \o "=$" \o ToString(Len(S.columns))

buildUpdateSQL(S) ==
    LET set == UpdateAssignments(S, 1, "UPDATE " \o S.tableName \o " SET ", TRUE, 1)
    IN  set.sql \o " WHERE " \o S.primaryKey \o "=$" \o ToString(set.index)

\* One loop of buildUpdateParams / buildDeleteParams: the members of the
\* columns that are (pk = TRUE) or are not (pk = FALSE) the primary key.
RECURSIVE ParamsWhere(_, _, _, _, _)
ParamsWhere(S, obj, pk, i, params) ==
    IF i > Len(S.columns) THEN params
    ELSE ParamsWhere(S, obj, pk, i + 1,
             IF (S.columns[i].name = S.primaryKey) = pk
             THEN Append(params, ToJsonValue(S.columns[i].kind, obj[S.columns[i].name]))
             ELSE params)

\* Mutant: the members in declared order, the primary key not moved last.
buildUpdateParams_declaredOrder(S, obj) == InsertParamsFrom(S, obj, 1, <<>>)

\* non-PK fields first, PK last
buildUpdateParams(S, obj) ==
    ParamsWhere(S, obj, TRUE, 1, ParamsWhere(S, obj, FALSE, 1, <<>>))

buildDeleteSQL(S) ==
    "DELETE FROM " \o S.tableName \o " WHERE " \o S.primaryKey \o "=$1"

\* Mutant: the first column's member, whichever column the primary key is.
buildDeleteParams_firstColumn(S, obj) ==
    << ToJsonValue(S.columns[1].kind, obj[S.columns[1].name]) >>

buildDeleteParams(S, obj) == ParamsWhere(S, obj, TRUE, 1, <<>>)

\* The statement texts Repository::getById and getAll put together.
SelectByIdSQL(S) ==
    "SELECT * FROM " \o S.tableName \o " WHERE " \o S.primaryKey \o "=$1"

SelectAllSQL(S) == "SELECT * FROM " \o S.tableName

-----------------------------------------------------------------------------
(* utils: Timestamp <-> "YYYY-MM-DD HH:MM:SS".  A std::tm is the record of *)
(* its calendar fields; the instants drawn lie in January 1970.            *)

TzOffsets == { 0, 3600 }

\* system_clock::to_time_t: whole seconds, the fraction dropped.
to_time_t(tp) == IF tp >= 0 THEN tp \div TicksPerSec ELSE -((-tp) \div TicksPerSec)

\* system_clock::from_time_t
from_time_t(tt) == tt * TicksPerSec

\* std::gmtime for 0 <= tt < 31 days: the UTC calendar fields.
gmtime(tt) ==
    [year |-> 1970, mon |-> 1, mday |-> (tt \div 86400) + 1,
     hour |-> (tt % 86400) \div 3600, min |-> (tt % 3600) \div 60, sec |-> tt % 60]

\* std::tm tm = {};
ZeroTm == [year |-> 1900, mon |-> 1, mday |-> 0, hour |-> 0, min |-> 0, sec |-> 0]

Pad2(n) == IF n < 10 THEN "0" \o ToString(n) ELSE ToString(n)

\* std::put_time(&tm, "%Y-%m-%d %H:%M:%S")
put_time(tm) ==
    ToString(tm.year) \o "-" \o Pad2(tm.mon) \o "-" \o Pad2(tm.mday) \o " "
        \o Pad2(tm.hour) \o ":" \o Pad2(tm.min) \o ":" \o Pad2(tm.sec)

timePointToString(tp) == put_time(gmtime(to_time_t(tp)))

\* The seconds whose renderings occur as texts.
TextSecs == { 0, 1, 59, 60, 3600, 3601, 86399, 86400 }

\* ss >> std::get_time(&tm, "%Y-%m-%d %H:%M:%S"): the fields the text
\* spells; a text that does not match leaves tm as it was.
get_time(str, tm) ==
    IF \E tt \in TextSecs : put_time(gmtime(tt)) = str
    THEN gmtime(CHOOSE tt \in TextSecs : put_time(gmtime(tt)) = str)
    ELSE tm

\* std::mktime: the calendar fields read as LOCAL time, tz seconds east of
\* UTC.  The zeroed tm (31 December 1899) is before every instant modelled:
\* the answer there is (time_t)-1, mktime's "cannot be represented".
mktime(tm, tz) ==
    IF tm.year # 1970 THEN -1
    ELSE (tm.mday - 1) * 86400 + tm.hour * 3600 + tm.min * 60 + tm.sec - tz

stringToTimePoint(str, tz) ==
    IF str = "" THEN 0
    ELSE from_time_t(mktime(get_time(str, ZeroTm), tz))

-----------------------------------------------------------------------------
(* model::autoToJson / model::autoFromJson (static reflection header): a   *)
(* Timestamp member travels as its text, a missing or null member is       *)
(* skipped.                                                                *)

model_ToJsonValue(kind, v) ==
    IF kind = "timestamp" THEN JStr(timePointToString(v)) ELSE ToJsonValue(kind, v)

RECURSIVE model_autoToJsonFrom(_, _, _, _)
model_autoToJsonFrom(S, obj, i, j) ==
    IF i > Len(S.columns) THEN j
    ELSE LET col == S.columns[i]
         IN  model_autoToJsonFrom(S, obj, i + 1,
                 JsonSet(j, col.name, model_ToJsonValue(col.kind, obj[col.name])))

model_autoToJson(S, obj) == model_autoToJsonFrom(S, obj, 1, JNull)

\* One member of model::autoFromJson, the key present and not null.
model_GetMember(kind, j, tz) ==
    IF kind = "timestamp"
    THEN LET str == GetTo("string", j)
         IN  IF str.ok THEN Returned(stringToTimePoint(str.v, tz)) ELSE str
    ELSE GetTo(kind, j)

RECURSIVE model_autoFromJsonFrom(_, _, _, _, _)
model_autoFromJsonFrom(S, j, tz, i, obj) ==
    IF i > Len(S.columns) THEN Returned(obj)
    ELSE LET col == S.columns[i]
         IN  IF JsonContains(j, col.name) /\ JsonAt(j, col.name).v.t # "null"
             THEN LET got == model_GetMember(col.kind, JsonAt(j, col.name).v, tz)
                  IN  IF ~got.ok THEN got
                      ELSE model_autoFromJsonFrom(S, j, tz, i + 1,
                                                  [obj EXCEPT ![col.name] = got.v])
             ELSE model_autoFromJsonFrom(S, j, tz, i + 1, obj)

\* Mutant: a missing key is an error, as with j.at(key).
model_autoFromJson_strict(S, j, tz) ==
    IF \E n \in ColNames(S) : ~JsonContains(j, n) THEN Thrown("json.out_of_range.403")
    ELSE model_autoFromJsonFrom(S, j, tz, 1, DefaultEntity(S))

model_autoFromJson(S, j, tz) == model_autoFromJsonFrom(S, j, tz, 1, DefaultEntity(S))

-----------------------------------------------------------------------------
(* IDatabase2: the executor the Repository calls through.  Any              *)
(* implementation may stand behind the reference, so what a call returns   *)
(* is an input: a row, no row, several rows, a count, or an exception.     *)

Call(fn, sql, params) == [fn |-> fn, sql |-> sql, params |-> params]

\* The entity types the JSON templates instantiate for: every member has a
\* nlohmann conversion (int, double, std::string).
JsonMapped(S) == ~HasKind(S, "timestamp")

\* JSON values an executor may put in a row's member, of any JSON type.
LooseValues == { JNull, JBool(TRUE), JInt(42), JFloat(15), JStr("BUY") }

\* The row a table holds for an object: one member per column, a Timestamp as
\* its text.
JsonRow(S, obj) ==
    LET member(k) == << S.columns[k].name,
                        IF S.columns[k].kind = "timestamp"
                        THEN JStr(timePointToString(obj[S.columns[k].name]))
                        ELSE ToJsonValue(S.columns[k].kind, obj[S.columns[k].name]) >>
        RECURSIVE Put(_, _)
        Put(k, j) == IF k > Len(S.columns) THEN j
                     ELSE Put(k + 1, JsonSet(j, member(k)[1], member(k)[2]))
    IN  Put(1, JNull)

RemoveKey(j, key) == JObject(SelectSeq(j.kv, LAMBDA m : m[1] # key))

\* A key no generated schema has a column for.
ExtraKey == "email"

\* Rows that differ from a stored row in one member: a member is missing, or
\* the first column's member holds a value of any JSON type, or there is a
\* member more.
OddRows(S) ==
    LET base == JsonRow(S, SampleEntity(S))
    IN  { RemoveKey(base, n) : n \in ColNames(S) }
            \cup { JsonSet(base, S.columns[1].name, v) : v \in LooseValues }
            \cup { JsonSet(base, ExtraKey, JStr("x")) }

\* No row: a default-constructed json (null), or an object without members.
EmptyResults == { JNull, JObject(<<>>) }

StoredRows(S) == { JsonRow(S, e) : e \in Entities(S) }

QueryOneReplies(S) ==
    { Returned(r) : r \in StoredRows(S) \cup OddRows(S) \cup EmptyResults }
        \cup { Thrown("ExecutionError") }

FewRows(S) ==
    { JsonRow(S, DefaultEntity(S)), JsonRow(S, SampleEntity(S)),
      RemoveKey(JsonRow(S, SampleEntity(S)), S.columns[1].name),
      JsonSet(JsonRow(S, SampleEntity(S)), S.columns[1].name, JNull) }

RECURSIVE SeqsUpTo(_, _)
SeqsUpTo(S, n) ==
    IF n = 0 THEN { <<>> }
    ELSE LET shorter == SeqsUpTo(S, n - 1)
         IN  shorter \cup
             UNION { { Append(s, c) : c \in S } : s \in { q \in shorter : Len(q) = n - 1 } }

QueryManyReplies(S) ==
    { Returned(rs) : rs \in SeqsUpTo(FewRows(S), MaxRows) } \cup { Thrown("ExecutionError") }

ExecuteReplies == { Returned(0), Returned(1), Returned(2), Thrown("ExecutionError") }

\* toLowerCopy, on the table names that occur.
toLowerCopy(s) == IF s = "FXInstrument2" THEN "fxinstrument2" ELSE s

\* parseTableFromSelect, on the SELECT statements the Repository builds: the
\* token after " from " is the table name the statement was built with.
parseTableFromSelect(sql) ==
    LET built == { S \in Traits : sql \in { SelectByIdSQL(S), SelectAllSQL(S) } }
    IN  IF built = {} THEN "" ELSE (CHOOSE S \in built : TRUE).tableName

\* MyDatabase::queryOnePrepared, the executor of the demonstration: for the
\* FXInstrument2 table a row of every column, each at its type's default but
\* the primary key, which is the first parameter when the statement holds
\* "where id"; for any other table the first parameter under "id".
MyDatabase_queryOnePrepared(sql, params) ==
    LET FX == FXInstrument2Traits
        wherePk == sql = SelectByIdSQL(FX)
        RECURSIVE Fill(_, _)
        Fill(k, row) ==
            IF k > Len(FX.columns) THEN row
            ELSE LET col == FX.columns[k]
                 IN  Fill(k + 1,
                          JsonSet(row, col.name,
                                  IF wherePk /\ col.name = FX.primaryKey /\ params # <<>>
                                  THEN params[1]
                                  ELSE ToJsonValue(col.kind, DefaultVal(col.kind))))
    IN  IF toLowerCopy(parseTableFromSelect(sql)) = toLowerCopy(FX.tableName)
        THEN Fill(1, JNull)
        ELSE IF params # <<>> THEN JsonSet(JNull, "id", params[1]) ELSE JNull

\* MyDatabase::queryManyPrepared: for the FXInstrument2 table two rows, the
\* primary key 1 and 2 and every other column at its type's default; for
\* any other table one row of the parameters under "$1", "$2", ... when
\* there are parameters, no row when there are none.
MyDatabase_queryManyPrepared(sql, params) ==
    LET FX == FXInstrument2Traits
        RECURSIVE Fill(_, _, _)
        Fill(i, k, row) ==
            IF k > Len(FX.columns) THEN row
            ELSE LET col == FX.columns[k]
                 IN  Fill(i, k + 1,
                          JsonSet(row, col.name,
                                  IF col.name = FX.primaryKey THEN JInt(i)
                                  ELSE ToJsonValue(col.kind, DefaultVal(col.kind))))
        RECURSIVE Dollar(_, _)
        Dollar(i, row) ==
            IF i > Len(params) THEN row
            ELSE Dollar(i + 1, JsonSet(row, "$" \o ToString(i), params[i]))
    IN  IF toLowerCopy(parseTableFromSelect(sql)) = toLowerCopy(FX.tableName)
        THEN << Fill(1, 1, JNull), Fill(2, 1, JNull) >>
        ELSE IF params # <<>> THEN << Dollar(1, JNull) >> ELSE <<>>

\* MyDatabase::executePrepared, on the statements the builders produce: 1
\* for a text holding "insert into", "update" or "delete", 0 for any other.
MyDatabase_executePrepared(sql, params) ==
    LET lowHasKeyword ==
            \E S \in Traits : sql \in { buildInsertSQL(S), buildUpdateSQL(S), buildDeleteSQL(S) }
    IN  IF lowHasKeyword THEN 1 ELSE 0

-----------------------------------------------------------------------------
(* Repository<T> over IDatabase2.  Each operator gives the record of one   *)
(* call: the argument, the calls made through db_, what db_ answered and   *)
(* what the caller gets.                                                   *)

Done(op, arg, calls, reply, ret) ==
    [op |-> op, arg |-> arg, calls |-> calls, reply |-> reply, ret |-> ret]

\* T::fromJson(j), as FXInstrument2::fromJson is written.
fromJson(S, j) == autoFromJson(S, j)

\* T::toJson()
toJson(S, obj) == autoToJson(S, obj)

\* Mutant: the id written into the statement's text.
getByIdCall_inlined(S, id) ==
    Call("queryOnePrepared",
         "SELECT * FROM " \o S.tableName \o " WHERE " \o S.primaryKey \o "=" \o ToString(id),
         <<>>)

getByIdCall(S, id) == Call("queryOnePrepared", SelectByIdSQL(S), << JInt(id) >>)

\* Mutant: a result without a row answered with a default-constructed T.
getById_defaultOnEmpty(S, id, reply) ==
    Done("getById", id, << getByIdCall(S, id) >>, reply,
         IF ~reply.ok THEN reply
         ELSE IF reply.v.t = "null" \/ Keys(reply.v) = <<>> THEN Returned(DefaultEntity(S))
         ELSE fromJson(S, reply.v))

getById(S, id, reply) ==
    Done("getById", id, << getByIdCall(S, id) >>, reply,
         IF reply.ok THEN fromJson(S, reply.v) ELSE reply)

getAllCall(S) == Call("queryManyPrepared", SelectAllSQL(S), <<>>)

\* Mutant: a row that does not decode ends the loop, and what was decoded
\* before it is returned.
RECURSIVE DecodeRows_partial(_, _, _, _)
DecodeRows_partial(S, rows, i, result) ==
    IF i > Len(rows) THEN Returned(result)
    ELSE LET e == fromJson(S, rows[i])
         IN  IF ~e.ok THEN Returned(result)
             ELSE DecodeRows_partial(S, rows, i + 1, Append(result, e.v))

\* Mutant: each entity is put in front of those decoded before it.
RECURSIVE DecodeRows_prepend(_, _, _, _)
DecodeRows_prepend(S, rows, i, result) ==
    IF i > Len(rows) THEN Returned(result)
    ELSE LET e == fromJson(S, rows[i])
         IN  IF ~e.ok THEN e ELSE DecodeRows_prepend(S, rows, i + 1, << e.v >> \o result)

\* The loop of getAll: result.push_back(T::fromJson(r)) for each row; an
\* exception leaves getAll and the vector built so far is destroyed.
RECURSIVE DecodeRows(_, _, _, _)
DecodeRows(S, rows, i, result) ==
    IF i > Len(rows) THEN Returned(result)
    ELSE LET e == fromJson(S, rows[i])
         IN  IF ~e.ok THEN e ELSE DecodeRows(S, rows, i + 1, Append(result, e.v))

getAll(S, reply) ==
    Done("getAll", "none", << getAllCall(S) >>, reply,
         IF reply.ok THEN DecodeRows(S, reply.v, 1, <<>>) ELSE reply)

\* Mutant: the statement text of the write before this one is kept and used
\* again.
insertCall_cached(S, obj) ==
    Call("executePrepared",
         IF last.op \in { "insert", "update", "remove" } THEN last.calls[1].sql
         ELSE buildInsertSQL(S),
         buildInsertParams(S, obj))

insertCall(S, obj) == Call("executePrepared", buildInsertSQL(S), buildInsertParams(S, obj))
updateCall(S, obj) == Call("executePrepared", buildUpdateSQL(S), buildUpdateParams(S, obj))
removeCall(S, obj) == Call("executePrepared", buildDeleteSQL(S), buildDeleteParams(S, obj))

\* insert / update / remove: the count executePrepared returns is dropped.
insert(S, obj, reply) ==
    Done("insert", obj, << insertCall(S, obj) >>, reply,
         IF reply.ok THEN Returned("void") ELSE reply)

\* Mutant: a failed execute is tried once more, and what the second try
\* does is not looked at.
update_retry(S, obj, reply) ==
    Done("update", obj,
         IF reply.ok THEN << updateCall(S, obj) >> ELSE << updateCall(S, obj), updateCall(S, obj) >>,
         reply, Returned("void"))

update(S, obj, reply) ==
    Done("update", obj, << updateCall(S, obj) >>, reply,
         IF reply.ok THEN Returned("void") ELSE reply)

\* Mutant: a count of 0 is taken to mean that the row was not there.
remove_checked(S, obj, reply) ==
    Done("remove", obj, << removeCall(S, obj) >>, reply,
         IF reply.ok THEN (IF reply.v = 0 THEN Thrown("NotFoundError") ELSE Returned("void"))
         ELSE reply)

remove(S, obj, reply) ==
    Done("remove", obj, << removeCall(S, obj) >>, reply,
         IF reply.ok THEN Returned("void") ELSE reply)

-----------------------------------------------------------------------------
(* db::DBValue, DBRow, DBReader and the Repository over db::IDatabase      *)
(* (static reflection header).                                             *)

DBValue(data, isNull) == [data |-> data, isNull |-> isNull]

\* The characters of the texts that occur as column data.
Chars(str) ==
    CASE str = "" -> <<>>
      [] str = "0" -> << "0" >>
      [] str = "42" -> << "4", "2" >>
      [] str = " 42" -> << " ", "4", "2" >>
      [] str = "-7" -> << "-", "7" >>
      [] str = "1.5" -> << "1", ".", "5" >>
      [] str = "42abc" -> << "4", "2", "a", "b", "c" >>
      [] str = "BUY" -> << "B", "U", "Y" >>
      [] OTHER -> << "?" >>

IsDigit(c) == c \in { "0", "1", "2", "3", "4", "5", "6", "7", "8", "9" }
DigitValue(c) == CHOOSE d \in 0..9 : ToString(d) = c

RECURSIVE SkipSpace(_, _)
SkipSpace(cs, i) ==
    IF i <= Len(cs) /\ cs[i] \in { " ", "\t", "\n" } THEN SkipSpace(cs, i + 1) ELSE i

\* The digits from position i on: their value and the position after them.
RECURSIVE Digits(_, _, _)
Digits(cs, i, acc) ==
    IF i <= Len(cs) /\ IsDigit(cs[i]) THEN Digits(cs, i + 1, acc * 10 + DigitValue(cs[i]))
    ELSE [v |-> acc, next |-> i]

\* std::stoi: leading white space, a sign, digits; what follows is ignored;
\* no digit at all is std::invalid_argument.
stoi(str) ==
    LET cs == Chars(str)
        i == SkipSpace(cs, 1)
        neg == i <= Len(cs) /\ cs[i] = "-"
        j == IF i <= Len(cs) /\ cs[i] \in { "-", "+" } THEN i + 1 ELSE i
        d == Digits(cs, j, 0)
    IN  IF d.next = j THEN Thrown("std::invalid_argument")
        ELSE Returned(IF neg THEN -d.v ELSE d.v)

\* std::stod, to the tenth: digits, then an optional '.' and fraction digits.
stod(str) ==
    LET cs == Chars(str)
        i == SkipSpace(cs, 1)
        neg == i <= Len(cs) /\ cs[i] = "-"
        j == IF i <= Len(cs) /\ cs[i] \in { "-", "+" } THEN i + 1 ELSE i
        d == Digits(cs, j, 0)
        frac == IF d.next + 1 <= Len(cs) /\ cs[d.next] = "." /\ IsDigit(cs[d.next + 1])
                THEN DigitValue(cs[d.next + 1]) ELSE 0
        tenths == d.v * 10 + frac
    IN  IF d.next = j THEN Thrown("std::invalid_argument")
        ELSE Returned(IF neg THEN -tenths ELSE tenths)

\* DBValue::as<T>()
as(kind, val, tz) ==
    IF val.isNull THEN Returned(DefaultVal(kind))
    ELSE CASE kind = "int" -> stoi(val.data)
           [] kind = "double" -> stod(val.data)
           [] kind = "string" -> Returned(val.data)
           [] kind = "timestamp" -> Returned(stringToTimePoint(val.data, tz))

DBReader(names, rows) ==
    [columnNames_ |-> names, rows_ |-> rows, currentRow_ |-> -1, currentCol_ |-> 0]

\* Mutant: the cursor moves on every call, as ResultSet::next() does.
next_unconditional(reader) ==
    [reader |-> [reader EXCEPT !.currentRow_ = @ + 1, !.currentCol_ = 0],
     ret |-> reader.currentRow_ + 1 < Len(reader.rows_)]

\* DBReader::next(): the reader after the call, and what the call returns.
next(reader) ==
    IF reader.currentRow_ + 1 < Len(reader.rows_)
    THEN [reader |-> [reader EXCEPT !.currentRow_ = @ + 1, !.currentCol_ = 0], ret |-> TRUE]
    ELSE [reader |-> reader, ret |-> FALSE]

\* DBReader::validate<T>()
validate(S, reader) ==
    IF Len(reader.columnNames_) # Len(S.columns)
    THEN Thrown("Column count mismatch in DBReader")
    ELSE Returned("void")

\* rows_[currentRow_] with currentRow_ outside the rows: vector::operator[]
\* out of range, undefined behaviour, marked as an outcome of its own.
UndefinedRead == Thrown("undefined: rows_[currentRow_] out of range")

\* reader >> member, column after column: rows_[currentRow_][currentCol_++].as<T>();
\* DBRow::operator[] is vector::at, std::out_of_range past the row's end.
RECURSIVE ReadMembers(_, _, _, _, _)
ReadMembers(S, reader, tz, i, obj) ==
    IF i > Len(S.columns) THEN Returned(obj)
    ELSE IF reader.currentRow_ < 0 \/ reader.currentRow_ >= Len(reader.rows_) THEN UndefinedRead
    ELSE LET row == reader.rows_[reader.currentRow_ + 1]
             c == reader.currentCol_ + 1
         IN  IF c > Len(row) THEN Thrown("std::out_of_range")
             ELSE LET got == as(S.columns[i].kind, row[c], tz)
                  IN  IF ~got.ok THEN got
                      ELSE ReadMembers(S, [reader EXCEPT !.currentCol_ = @ + 1], tz, i + 1,
                                       [obj EXCEPT ![S.columns[i].name] = got.v])

\* Mutant: validate<T>() before every row, not only before the first.
ReadEntity_validateAlways(S, reader, tz, obj) ==
    LET checked == validate(S, reader)
    IN  IF ~checked.ok THEN checked ELSE ReadMembers(S, reader, tz, 1, obj)

\* reader >> obj
ReadEntity(S, reader, tz, obj) ==
    LET checked == IF reader.currentRow_ = 0 /\ reader.currentCol_ = 0
                   THEN validate(S, reader) ELSE Returned("void")
    IN  IF ~checked.ok THEN checked ELSE ReadMembers(S, reader, tz, 1, obj)

SelectByIdSQL2(S) ==
    "SELECT * FROM " \o S.tableName \o " WHERE " \o S.primaryKey \o " = $1"

NullOpt == [has |-> FALSE]
Some(obj) == [has |-> TRUE, value |-> obj]

\* Repository<T>::getById over db::IDatabase: std::optional<T>.
getByIdReader(S, id, reply, tz) ==
    Done("getByIdReader", id,
         << Call("executeQuery", SelectByIdSQL2(S), << ToString(id) >>) >>, reply,
         IF ~reply.ok THEN reply
         ELSE LET n == next(reply.v)
              IN  IF n.ret
                  THEN LET obj == ReadEntity(S, n.reader, tz, DefaultEntity(S))
                       IN  IF obj.ok THEN Returned(Some(obj.v)) ELSE obj
                  ELSE Returned(NullOpt))

\* The text a database sends for a member's value.
DataText(kind, v) ==
    CASE kind = "int" -> ToString(v)
      [] kind = "double" ->
           ToString(v \div 10) \o (IF v % 10 = 0 THEN "" ELSE "." \o ToString(v % 10))
      [] kind = "string" -> v
      [] kind = "timestamp" -> timePointToString(v)

RowOf(S, obj) ==
    [k \in 1..Len(S.columns) |->
        DBValue(DataText(S.columns[k].kind, obj[S.columns[k].name]), FALSE)]

\* The cursor loop over a reader: 'while (reader.next()) { T obj; reader >>
\* obj; ... }', every entity read kept; an exception ends it.
RECURSIVE ReadAllFrom(_, _, _, _)
ReadAllFrom(S, reader, tz, result) ==
    LET n == next(reader)
    IN  IF ~n.ret THEN Returned(result)
        ELSE LET obj == ReadEntity(S, n.reader, tz, DefaultEntity(S))
             IN  IF ~obj.ok THEN obj
                 ELSE ReadAllFrom(S, [n.reader EXCEPT !.currentCol_ = Len(S.columns)], tz,
                                  Append(result, obj.v))

\* next() called skip times, the rows it passes not read, then the loop.
RECURSIVE SkipRows(_, _)
SkipRows(reader, skip) ==
    IF skip = 0 THEN reader ELSE SkipRows(next(reader).reader, skip - 1)

ReadAll(S, reader, skip, tz) ==
    Done("DBReader.readAll", [reader |-> reader, skip |-> skip, tz |-> tz], <<>>, "none",
         ReadAllFrom(S, SkipRows(reader, skip), tz, <<>>))

\* Results of up to MaxRows rows, at most one of them a cell short or a
\* cell long; and results whose column names are one short, one long, or
\* other names.
LoopReaders(S) ==
    LET names == NameList(S.columns)
        sample == RowOf(S, SampleEntity(S))
        short == SubSeq(sample, 1, Len(sample) - 1)
        long == Append(sample, DBValue("42", FALSE))
        odd(rows) == { i \in 1..Len(rows) : rows[i] # sample }
    IN  { DBReader(names, rows) :
              rows \in { q \in SeqsUpTo({ sample, short, long }, MaxRows) :
                            Cardinality(odd(q)) <= 1 } }
            \cup { DBReader(ns, << sample, sample >>) :
                      ns \in { SubSeq(names, 1, Len(names) - 1), Append(names, ExtraKey),
                               [names EXCEPT ![1] = ExtraKey] } }

\* What executeQuery may answer: no row; the row of an entity; a row with a
\* NULL or differently typed first value; a row or a column list one short.
ReaderReplies(S) ==
    LET names == NameList(S.columns)
        sample == RowOf(S, SampleEntity(S))
    IN  { Returned(DBReader(names, <<>>)), Thrown("ExecutionError"),
          Returned(DBReader(names, << [sample EXCEPT ![1] = DBValue("", TRUE)] >>)),
          Returned(DBReader(names, << [sample EXCEPT ![1] = DBValue("BUY", FALSE)] >>)),
          Returned(DBReader(names, << [sample EXCEPT ![1] = DBValue("42abc", FALSE)] >>)),
          Returned(DBReader(names, << SubSeq(sample, 1, Len(sample) - 1) >>)),
          Returned(DBReader(SubSeq(names, 1, Len(names) - 1), << sample >>)) }
        \cup { Returned(DBReader(names, << RowOf(S, e) >>)) : e \in Entities(S) }

-----------------------------------------------------------------------------
(* The hand-written POCOs: to_json builds the object from its members,     *)
(* from_json reads member after member with j.at(key).get_to(member).      *)

UserMembers ==
    [tableName |-> "users", primaryKey |-> "id",
     columns |-> << Column("id", "int"), Column("username", "string"),
                    Column("email", "string"), Column("role", "string") >>]

TradeMembers ==
    [tableName |-> "trades", primaryKey |-> "id",
     columns |-> << Column("id", "int"), Column("userId", "int"),
                    Column("instrumentId", "int"), Column("side", "string"),
                    Column("quantity", "double"), Column("price", "double"),
                    Column("timestamp", "string") >>]

\* to_json(j, u); User::toJson
User_toJson(u) == autoToJsonFrom(UserMembers, u, 1, JNull)

\* from_json(j, u); User::fromJson
User_fromJson(j) == autoFromJsonFrom(UserMembers, j, 1, DefaultEntity(UserMembers))

\* to_json(j, t); Trade::toJson
Trade_toJson(t) == autoToJsonFrom(TradeMembers, t, 1, JNull)

\* from_json(j, t); Trade::fromJson
Trade_fromJson(j) == autoFromJsonFrom(TradeMembers, j, 1, DefaultEntity(TradeMembers))

-----------------------------------------------------------------------------
(* The state machine of the ORM core: one Repository<T>, any sequence of   *)
(* calls on it and on the codec.                                           *)

\* mutex_ unlocked; a null std::unique_ptr.
NoThread == 0
NoConn == 0
Threads == 1..NThreads
Conns == 1..PoolSize

\* The two calls of PostgresDatabase; each borrows for its own scope.
DatabaseCalls == { "executeQuery", "execute" }

\* int: IntBits wide, two's complement.
IntMin == -(2 ^ (IntBits - 1))
IntMax == 2 ^ (IntBits - 1) - 1
IntRange == IntMin..IntMax

\* i++ on an int: past IntMax the behaviour is undefined, the value any int.
Increment(i) == IF i < IntMax THEN { i + 1 } ELSE IntRange

\* ResultSet::ResultSet(): no row, currentRow_(-1).
ResultSet == [columnNames_ |-> <<>>, rows_ |-> <<>>, currentRow_ |-> -1]

\* ResultSet::addRow
addRow(r, row) == [r EXCEPT !.rows_ = Append(@, row)]

\* ResultSet::next(): currentRow_++; return currentRow_ < (int) rows_.size();
\* the outcomes, one but for an overflowing increment.
ResultSet_next(r) ==
    { [rs |-> [r EXCEPT !.currentRow_ = v], ret |-> v < Len(r.rows_)] :
          v \in Increment(r.currentRow_) }

\* ResultSet::getField
getField(r, columnName) ==
    IF r.currentRow_ < 0 \/ r.currentRow_ >= Len(r.rows_)
    THEN Thrown("No current row")
    ELSE LET row == r.rows_[r.currentRow_ + 1]
         IN  IF columnName \notin DOMAIN row
             THEN Thrown("Column not found: " \o columnName)
             ELSE Returned(row[columnName])

\* ResultSet::getInt
getInt(r, columnName) ==
    LET value == getField(r, columnName)
    IN  IF ~value.ok THEN value ELSE stoi(value.v)

\* ResultSet::getDouble
getDouble(r, columnName) ==
    LET value == getField(r, columnName)
    IN  IF ~value.ok THEN value ELSE stod(value.v)

\* ResultSet::isNull
isNull(r, columnName) ==
    IF r.currentRow_ < 0 \/ r.currentRow_ >= Len(r.rows_) THEN TRUE
    ELSE LET row == r.rows_[r.currentRow_ + 1]
         IN  columnName \notin DOMAIN row \/ row[columnName] = ""

\* Rows of the kind execQuery adds: every field filled, a field empty, a
\* field missing and one that reads as a number.
ResultRows ==
    { [username |-> "trader1", email |-> "trader1@example.com"],
      [username |-> "admin1", email |-> ""],
      [id |-> "42", username |-> "guest"] }

FieldNames == { "id", "username", "email" }

\* next() is followed as far as one call past the overflow of currentRow_.
MaxCalls == 2 ^ (IntBits - 1) + 2

ResultSetInit ==
    /\ resultSet = ResultSet
    /\ cursor = [calls |-> 0, size0 |-> 0, ret |-> FALSE, ended |-> FALSE]

\* ResultSet::setColumnNames
setColumnNames(r, names) == [r EXCEPT !.columnNames_ = names]

\* A query text, as the sequence of its words; std::string::find of a word.
find(query, word) == \E i \in 1..Len(query) : query[i] = word

\* ::tolower over a word.
tolower(w) ==
    CASE w \in { "SELECT", "Select" } -> "select"
      [] w = "FROM" -> "from"
      [] w = "DELETE" -> "delete"
      [] w = "USERS" -> "users"
      [] w = "FXInstruments" -> "fxinstruments"
      [] w = "Trades" -> "trades"
      [] OTHER -> w

\* The sample data both mock connections answer with: the first of users,
\* fxinstruments, trades that the text holds decides.
MockData(text) ==
    IF find(text, "users")
    THEN addRow(addRow(setColumnNames(ResultSet, << "id", "username", "email", "role" >>),
                       [id |-> "1", username |-> "trader1", email |-> "trader1@example.com",
                        role |-> "TRADER"]),
                [id |-> "2", username |-> "admin1", email |-> "admin1@example.com",
                 role |-> "ADMIN"])
    ELSE IF find(text, "fxinstruments")
    THEN addRow(setColumnNames(ResultSet, << "id", "symbol", "base_currency",
                                           "quote_currency", "tick_size" >>),
                [id |-> "1", symbol |-> "EUR/USD", base_currency |-> "EUR",
                 quote_currency |-> "USD", tick_size |-> "0.0001"])
    ELSE IF find(text, "trades")
    THEN addRow(setColumnNames(ResultSet, << "id", "user_id", "instrument_id", "side",
                                           "quantity", "price", "timestamp" >>),
                [id |-> "1", user_id |-> "1", instrument_id |-> "1", side |-> "BUY",
                 quantity |-> "100000", price |-> "1.0850",
                 timestamp |-> "2024-01-28 12:00:00"])
    ELSE ResultSet

\* PostgreSQLConnection::execQuery past the connected_ test: the query is
\* lowered, then searched.
PostgreSQL_execQuery(query) ==
    LET lowerQuery == [i \in 1..Len(query) |-> tolower(query[i])]
    IN  IF find(lowerQuery, "select") THEN MockData(lowerQuery) ELSE ResultSet

\* SybaseConnection::execQuery past the connected_ test: the query is
\* searched as it is written, for "SELECT" or "select".
Sybase_execQuery(query) ==
    IF find(query, "SELECT") \/ find(query, "select") THEN MockData(query) ELSE ResultSet

\* No Connection object.
NoConnection == [dbType_ |-> "none", connected_ |-> FALSE, closed |-> 0, alive |-> FALSE]

\* PostgreSQLConnection / SybaseConnection constructor: connected_ = true.
\* closed counts the close actions made on the object (PQfinish, dbclose).
openConnection(dbType) == [dbType_ |-> dbType, connected_ |-> TRUE, closed |-> 0, alive |-> TRUE]

execQuery(c, query) ==
    IF ~c.connected_ THEN Thrown("Not connected to database")
    ELSE Returned(IF c.dbType_ = "PostgreSQL" THEN PostgreSQL_execQuery(query)
                  ELSE Sybase_execQuery(query))

\* Mutant: Connection::execCommand, the base class's, which tests nothing.
execCommand_base(c, command) == Returned(1)

execCommand(c, command) ==
    IF ~c.connected_ THEN Thrown("Not connected to database") ELSE Returned(1)

\* Mutant: the close action without the connected_ test.
close_always(c) == [c EXCEPT !.connected_ = FALSE, !.closed = @ + 1]

\* PostgreSQLConnection::close / SybaseConnection::close / Connection::close
close(c) == IF c.connected_ THEN [c EXCEPT !.connected_ = FALSE, !.closed = @ + 1] ELSE c

\* ~PostgreSQLConnection / ~SybaseConnection: close(); then ~Connection:
\* if (connected_) close();
destroy(c) ==
    LET derived == close(c)
        base == IF derived.connected_ THEN close(derived) ELSE derived
    IN  [base EXCEPT !.alive = FALSE]

DatabaseTypes == { "PostgreSQL", "Sybase" }

\* Query texts: a keyword and a table name in several letter cases, and a
\* text naming two tables.
Queries ==
    { << kw, "*", "FROM", tbl >> :
          kw \in { "SELECT", "select", "Select", "DELETE" },
          tbl \in { "users", "USERS", "fxinstruments", "FXInstruments", "trades", "Trades",
                    "orders" } }
        \cup { << "select", "*", "from", "trades", "users" >> }

Commands == { << "DELETE", "FROM", "users" >>, << "select", "*", "from", "users" >> }

ConnInit == conn = NoConnection

\* A reader and no call of next() on it yet.
Reading(reader) == [reader |-> reader, calls |-> 0, trues |-> 0, ret |-> FALSE]

ReadingInit == reading = Reading(DBReader(<<>>, <<>>))

Nothing == Done("none", "none", <<>>, "none", Returned("none"))

\* PostgresConnectionPool(str, size): size connections pushed, nobody inside.
PoolInit ==
    /\ pool_ = [i \in 1..PoolSize |-> i]
    /\ mutex_ = NoThread
    /\ waiting = {}
    /\ pc = [t \in Threads |-> "idle"]
    /\ held = [t \in Threads |-> NoConn]
    /\ call = [t \in Threads |-> [fn |-> "none", thrown |-> "none"]]

Init ==
    /\ T \in Traits
    /\ last = Nothing
    /\ PoolInit
    /\ ResultSetInit
    /\ ConnInit
    /\ ReadingInit

Insert ==
    /\ JsonMapped(T)
    /\ \E obj \in Entities(T) :
          LET c == insertCall(T, obj)
              mine == Returned(MyDatabase_executePrepared(c.sql, c.params))
          IN  \E reply \in ExecuteReplies \cup { mine } : last' = insert(T, obj, reply)
    /\ UNCHANGED <<T, poolVars, cursorVars, conn, reading>>

Update ==
    /\ JsonMapped(T)
    /\ \E obj \in Entities(T) :
          LET c == updateCall(T, obj)
              mine == Returned(MyDatabase_executePrepared(c.sql, c.params))
          IN  \E reply \in ExecuteReplies \cup { mine } : last' = update(T, obj, reply)
    /\ UNCHANGED <<T, poolVars, cursorVars, conn, reading>>

Remove ==
    /\ JsonMapped(T)
    /\ \E obj \in Entities(T) :
          LET c == removeCall(T, obj)
              mine == Returned(MyDatabase_executePrepared(c.sql, c.params))
          IN  \E reply \in ExecuteReplies \cup { mine } : last' = remove(T, obj, reply)
    /\ UNCHANGED <<T, poolVars, cursorVars, conn, reading>>

GetById ==
    /\ JsonMapped(T)
    /\ \E id \in IdVals :
          LET c == getByIdCall(T, id)
              mine == Returned(MyDatabase_queryOnePrepared(c.sql, c.params))
          IN  \E reply \in QueryOneReplies(T) \cup { mine } : last' = getById(T, id, reply)
    /\ UNCHANGED <<T, poolVars, cursorVars, conn, reading>>

GetAll ==
    /\ JsonMapped(T)
    /\ LET c == getAllCall(T)
           mine == Returned(MyDatabase_queryManyPrepared(c.sql, c.params))
       IN  \E reply \in QueryManyReplies(T) \cup { mine } : last' = getAll(T, reply)
    /\ UNCHANGED <<T, poolVars, cursorVars, conn, reading>>

ToJson ==
    /\ JsonMapped(T)
    /\ \E obj \in Entities(T) :
          last' = Done("toJson", obj, <<>>, "none", Returned(toJson(T, obj)))
    /\ UNCHANGED <<T, poolVars, cursorVars, conn, reading>>

FromJson ==
    /\ JsonMapped(T)
    /\ \E j \in StoredRows(T) \cup OddRows(T) \cup EmptyResults :
          last' = Done("fromJson", j, <<>>, "none", fromJson(T, j))
    /\ UNCHANGED <<T, poolVars, cursorVars, conn, reading>>

\* fromJson(toJson(obj)) through the prepared-statement header's codec.
RoundTrip ==
    /\ JsonMapped(T)
    /\ \E obj \in Entities(T) :
          last' = Done("roundTrip", obj, <<>>, "none", fromJson(T, toJson(T, obj)))
    /\ UNCHANGED <<T, poolVars, cursorVars, conn, reading>>

\* The local offsets that can matter to a call: mktime runs only for a
\* Timestamp member.
TzFor(S) == IF HasKind(S, "timestamp") THEN TzOffsets ELSE { 0 }

ModelToJson ==
    /\ \E obj \in Entities(T) :
          last' = Done("model.toJson", obj, <<>>, "none", Returned(model_autoToJson(T, obj)))
    /\ UNCHANGED <<T, poolVars, cursorVars, conn, reading>>

ModelFromJson ==
    /\ \E j \in StoredRows(T) \cup OddRows(T) \cup EmptyResults, tz \in TzFor(T) :
          last' = Done("model.fromJson", [j |-> j, tz |-> tz], <<>>, "none",
                       model_autoFromJson(T, j, tz))
    /\ UNCHANGED <<T, poolVars, cursorVars, conn, reading>>

ModelRoundTrip ==
    /\ \E obj \in Entities(T), tz \in TzFor(T) :
          last' = Done("model.roundTrip", [obj |-> obj, tz |-> tz], <<>>, "none",
                       model_autoFromJson(T, model_autoToJson(T, obj), tz))
    /\ UNCHANGED <<T, poolVars, cursorVars, conn, reading>>

GetByIdReader ==
    /\ \E id \in IdVals, reply \in ReaderReplies(T), tz \in TzFor(T) :
          last' = getByIdReader(T, id, reply, tz)
    /\ UNCHANGED <<T, poolVars, cursorVars, conn, reading>>

DBReaderLoop ==
    /\ \E reader \in LoopReaders(T), skip \in { 0, 1 }, tz \in TzFor(T) :
          last' = ReadAll(T, reader, skip, tz)
    /\ UNCHANGED <<T, poolVars, cursorVars, conn, reading>>

UserRoundTrip ==
    /\ \E u \in Entities(UserMembers) :
          last' = Done("User.roundTrip", u, <<>>, "none", User_fromJson(User_toJson(u)))
    /\ UNCHANGED <<T, poolVars, cursorVars, conn, reading>>

TradeRoundTrip ==
    /\ \E t \in Entities(TradeMembers) :
          last' = Done("Trade.roundTrip", t, <<>>, "none", Trade_fromJson(Trade_toJson(t)))
    /\ UNCHANGED <<T, poolVars, cursorVars, conn, reading>>

\* Trade::fromJson on a trade's JSON, whole or with one key left out.
TradeFromJson ==
    /\ \E n \in ColNames(TradeMembers) \cup { "none" } :
          LET whole == Trade_toJson(SampleEntity(TradeMembers))
              j == IF n = "none" THEN whole ELSE RemoveKey(whole, n)
          IN  last' = Done("Trade.fromJson", j, <<>>, "none", Trade_fromJson(j))
    /\ UNCHANGED <<T, poolVars, cursorVars, conn, reading>>

Next ==
    \/ Insert
    \/ Update
    \/ Remove
    \/ GetById
    \/ GetAll
    \/ GetByIdReader

\* The Repository, over either executor interface, and the reader it decodes.
Spec == Init /\ [][Next]_vars

NextRows ==
    \/ GetById
    \/ DBReaderLoop

\* Rows of either executor interface being decoded: a JSON row by getById, a
\* DBReader's rows by the cursor loop.
SpecRows == Init /\ [][NextRows]_vars

\* The texts a pqxx field may hand to DBValue.
DataTexts == { "", "0", "42", " 42", "-7", "1.5", "42abc", "BUY" }

\* A field with a text, or a NULL field (pqxx gives it the empty text).
DBValues == { DBValue(text, FALSE) : text \in DataTexts } \cup { DBValue("", TRUE) }

\* DBValue(text, isNull).as<T>() on its own.
DBValueAs ==
    /\ \E kind \in { "int", "double", "string", "timestamp" }, val \in DBValues :
          \E tz \in (IF kind = "timestamp" THEN TzOffsets ELSE { 0 }) :
              last' = Done("DBValue.as", [kind |-> kind, val |-> val, tz |-> tz],
                           <<>>, "none", as(kind, val, tz))
    /\ UNCHANGED <<T, poolVars, cursorVars, conn, reading>>

\* The instants whose renderings occur as texts, in ticks; with TicksPerSec
\* above 1 some are not whole seconds.
Instants == { tt * TicksPerSec + f : tt \in TextSecs, f \in { 0, 1 } }

\* Local time zones, in seconds east of UTC: New York, UTC, Paris, Kolkata.
LocalZones == TzOffsets \cup { -18000, 19800 }

\* stringToTimePoint(timePointToString(t)) in a process tz seconds east of UTC.
TimestampRoundTrip ==
    /\ \E t \in Instants, tz \in LocalZones :
          LET str == timePointToString(t)
          IN  last' = Done("Timestamp.roundTrip", [t |-> t, tz |-> tz], <<>>, "none",
                           Returned([str |-> str, tp |-> stringToTimePoint(str, tz)]))
    /\ UNCHANGED <<T, poolVars, cursorVars, conn, reading>>

\* stringToTimePoint on a text: empty, a rendering, or no date at all.
StringToTimePoint ==
    /\ \E str \in { "", "BUY" } \cup { timePointToString(t) : t \in Instants }, tz \in LocalZones :
          last' = Done("stringToTimePoint", [str |-> str, tz |-> tz], <<>>, "none",
                       Returned(stringToTimePoint(str, tz)))
    /\ UNCHANGED <<T, poolVars, cursorVars, conn, reading>>

InitTime ==
    /\ T = FXInstrument2Traits
    /\ last = Nothing
    /\ PoolInit
    /\ ResultSetInit
    /\ ConnInit
    /\ ReadingInit

NextTime ==
    \/ TimestampRoundTrip
    \/ StringToTimePoint

\* The Timestamp utilities on their own.
SpecTime == InitTime /\ [][NextTime]_vars

NextCodec ==
    \/ ToJson
    \/ FromJson
    \/ RoundTrip
    \/ ModelToJson
    \/ ModelFromJson
    \/ ModelRoundTrip
    \/ UserRoundTrip
    \/ TradeRoundTrip
    \/ TradeFromJson
    \/ DBValueAs

\* The JSON codecs on their own.
SpecCodec == Init /\ [][NextCodec]_vars

-----------------------------------------------------------------------------
(* db::PostgresConnectionPool under concurrent threads.  Each thread runs  *)
(* PostgresDatabase::executeQuery or execute: borrow(), a PooledConnGuard  *)
(* owning the connection while the statement runs and commits, and         *)
(* release() from the guard's destructor.  pc is the thread's position;    *)
(* held is the unique_ptr it holds; waiting is the set of threads blocked  *)
(* in cv_.wait.                                                            *)

\* std::unique_lock<std::mutex> lock(mutex_);
BorrowLock(t) ==
    /\ pc[t] = "idle"
    /\ mutex_ = NoThread
    /\ mutex_' = t
    /\ pc' = [pc EXCEPT ![t] = "b_wait"]
    /\ \E fn \in DatabaseCalls : call' = [call EXCEPT ![t] = [fn |-> fn, thrown |-> "none"]]
    /\ UNCHANGED <<pool_, waiting, held, repoVars, cursorVars, conn, reading>>

\* cv_.wait(lock, pred): the predicate is tested with the mutex held; when
\* the queue is empty the thread unlocks and blocks.
BorrowWait(t) ==
    /\ pc[t] = "b_wait"
    /\ IF pool_ # <<>>
       THEN /\ pc' = [pc EXCEPT ![t] = "b_front"]
            /\ UNCHANGED <<mutex_, waiting>>
       ELSE /\ pc' = [pc EXCEPT ![t] = "b_blocked"]
            /\ mutex_' = NoThread
            /\ waiting' = waiting \cup { t }
    /\ UNCHANGED <<pool_, held, call, repoVars, cursorVars, conn, reading>>

\* Mutant: 'if (pool_.empty()) cv_.wait(lock);', the predicate not tested
\* again after the wait.
BorrowWake_noRecheck(t) ==
    /\ pc[t] = "b_blocked"
    /\ t \notin waiting
    /\ mutex_ = NoThread
    /\ mutex_' = t
    /\ pc' = [pc EXCEPT ![t] = "b_front"]
    /\ UNCHANGED <<pool_, waiting, held, call, repoVars, cursorVars, conn, reading>>

\* A notified thread takes the mutex again and tests the predicate again.
BorrowWake(t) ==
    /\ pc[t] = "b_blocked"
    /\ t \notin waiting
    /\ mutex_ = NoThread
    /\ mutex_' = t
    /\ pc' = [pc EXCEPT ![t] = "b_wait"]
    /\ UNCHANGED <<pool_, waiting, held, call, repoVars, cursorVars, conn, reading>>

\* A condition variable may also wake a thread nobody notified.
SpuriousWake(t) ==
    /\ pc[t] = "b_blocked"
    /\ t \in waiting
    /\ mutex_ = NoThread
    /\ mutex_' = t
    /\ waiting' = waiting \ { t }
    /\ pc' = [pc EXCEPT ![t] = "b_wait"]
    /\ UNCHANGED <<pool_, held, call, repoVars, cursorVars, conn, reading>>

\* Mutant: the front copied, not moved out of the queue.
BorrowFront_copy(t) ==
    /\ pc[t] = "b_front"
    /\ held' = [held EXCEPT ![t] = Head(pool_)]
    /\ pc' = [pc EXCEPT ![t] = "b_pop"]
    /\ UNCHANGED <<pool_, mutex_, waiting, call, repoVars, cursorVars, conn, reading>>

\* auto conn = std::move(pool_.front()): the queue's front is left null.
BorrowFront(t) ==
    /\ pc[t] = "b_front"
    /\ held' = [held EXCEPT ![t] = Head(pool_)]
    /\ pool_' = << NoConn >> \o Tail(pool_)
    /\ pc' = [pc EXCEPT ![t] = "b_pop"]
    /\ UNCHANGED <<mutex_, waiting, call, repoVars, cursorVars, conn, reading>>

\* pool_.pop();
BorrowPop(t) ==
    /\ pc[t] = "b_pop"
    /\ pool_' = Tail(pool_)
    /\ pc' = [pc EXCEPT ![t] = "b_return"]
    /\ UNCHANGED <<mutex_, waiting, held, call, repoVars, cursorVars, conn, reading>>

\* return conn; the lock's destructor unlocks.
BorrowReturn(t) ==
    /\ pc[t] = "b_return"
    /\ mutex_' = NoThread
    /\ pc' = [pc EXCEPT ![t] = "owner"]
    /\ UNCHANGED <<pool_, waiting, held, call, repoVars, cursorVars, conn, reading>>

\* Mutant: the connection released by hand after commit, so that a throwing
\* statement leaves the scope without releasing it.
ExecParams_noGuard(t) ==
    /\ pc[t] = "owner"
    /\ \/ /\ pc' = [pc EXCEPT ![t] = "commit"]
          /\ UNCHANGED <<held, call>>
       \/ /\ pc' = [pc EXCEPT ![t] = "idle"]
          /\ held' = [held EXCEPT ![t] = NoConn]
          /\ call' = [call EXCEPT ![t].thrown = "exec_params"]
    /\ UNCHANGED <<pool_, mutex_, waiting, repoVars, cursorVars, conn, reading>>

\* pqxx::work txn(*guard.conn); txn.exec_params(sql, params): the statement
\* runs, or throws and the scope is left by unwinding.
ExecParams(t) ==
    /\ pc[t] = "owner"
    /\ \/ /\ pc' = [pc EXCEPT ![t] = "commit"]
          /\ UNCHANGED call
       \/ /\ pc' = [pc EXCEPT ![t] = "unwind"]
          /\ call' = [call EXCEPT ![t].thrown = "exec_params"]
    /\ UNCHANGED <<pool_, mutex_, waiting, held, repoVars, cursorVars, conn, reading>>

\* txn.commit(): commits (executeQuery has copied the rows by then), or throws.
Commit(t) ==
    /\ pc[t] = "commit"
    /\ \/ /\ pc' = [pc EXCEPT ![t] = "scope_exit"]
          /\ UNCHANGED call
       \/ /\ pc' = [pc EXCEPT ![t] = "unwind"]
          /\ call' = [call EXCEPT ![t].thrown = "commit"]
    /\ UNCHANGED <<pool_, mutex_, waiting, held, repoVars, cursorVars, conn, reading>>

\* ~PooledConnGuard(), at the return and while unwinding alike:
\* pool.release(std::move(conn)): std::lock_guard<std::mutex> lock(mutex_);
ReleaseLock(t) ==
    /\ pc[t] \in { "scope_exit", "unwind" }
    /\ mutex_ = NoThread
    /\ mutex_' = t
    /\ pc' = [pc EXCEPT ![t] = "r_push"]
    /\ UNCHANGED <<pool_, waiting, held, call, repoVars, cursorVars, conn, reading>>

\* pool_.push(std::move(conn));
ReleasePush(t) ==
    /\ pc[t] = "r_push"
    /\ pool_' = Append(pool_, held[t])
    /\ held' = [held EXCEPT ![t] = NoConn]
    /\ pc' = [pc EXCEPT ![t] = "r_notify"]
    /\ UNCHANGED <<mutex_, waiting, call, repoVars, cursorVars, conn, reading>>

\* Mutant: release() without the notify_one.
ReleaseNotify_none(t) ==
    /\ pc[t] = "r_notify"
    /\ pc' = [pc EXCEPT ![t] = "r_unlock"]
    /\ UNCHANGED <<pool_, mutex_, waiting, held, call, repoVars, cursorVars, conn, reading>>

\* cv_.notify_one(): one of the blocked threads, if any, is woken.
ReleaseNotify(t) ==
    /\ pc[t] = "r_notify"
    /\ IF waiting = {} THEN UNCHANGED waiting
       ELSE \E w \in waiting : waiting' = waiting \ { w }
    /\ pc' = [pc EXCEPT ![t] = "r_unlock"]
    /\ UNCHANGED <<pool_, mutex_, held, call, repoVars, cursorVars, conn, reading>>

\* The lock_guard's destructor unlocks; the call is over, and what it threw
\* is with its caller.
ReleaseUnlock(t) ==
    /\ pc[t] = "r_unlock"
    /\ mutex_' = NoThread
    /\ pc' = [pc EXCEPT ![t] = "idle"]
    /\ call' = [call EXCEPT ![t].fn = "none"]
    /\ UNCHANGED <<pool_, waiting, held, repoVars, cursorVars, conn, reading>>

InitPool ==
    /\ T = FXInstrument2Traits
    /\ last = Nothing
    /\ PoolInit
    /\ ResultSetInit
    /\ ConnInit
    /\ ReadingInit

NextPool ==
    \E t \in Threads :
        \/ BorrowLock(t)
        \/ BorrowWait(t)
        \/ BorrowWake(t)
        \/ SpuriousWake(t)
        \/ BorrowFront(t)
        \/ BorrowPop(t)
        \/ BorrowReturn(t)
        \/ ExecParams(t)
        \/ Commit(t)
        \/ ReleaseLock(t)
        \/ ReleasePush(t)
        \/ ReleaseNotify(t)
        \/ ReleaseUnlock(t)

\* The pool and the threads that share it.
SpecPool == InitPool /\ [][NextPool]_vars

\* The threads that contend for a pool of one connection.
LiveThreads == 1..(NThreads - 1)

\* PostgresConnectionPool(str, 1)
InitPoolLive ==
    /\ T = FXInstrument2Traits
    /\ last = Nothing
    /\ pool_ = << 1 >>
    /\ mutex_ = NoThread
    /\ waiting = {}
    /\ pc = [t \in Threads |-> "idle"]
    /\ held = [t \in Threads |-> NoConn]
    /\ call = [t \in Threads |-> [fn |-> "none", thrown |-> "none"]]
    /\ ResultSetInit
    /\ ConnInit
    /\ ReadingInit

\* A step of thread t inside a call it has begun that needs no mutex.
Proceed(t) ==
    \/ BorrowWait(t)
    \/ BorrowFront(t)
    \/ BorrowPop(t)
    \/ BorrowReturn(t)
    \/ ExecParams(t)
    \/ Commit(t)
    \/ ReleasePush(t)
    \/ ReleaseNotify(t)
    \/ ReleaseUnlock(t)

\* A step of thread t that takes the mutex inside a call it has begun.
Acquire(t) ==
    \/ BorrowWake(t)
    \/ ReleaseLock(t)

NextPoolLive ==
    \E t \in LiveThreads :
        \/ BorrowLock(t)
        \/ SpuriousWake(t)
        \/ Proceed(t)
        \/ Acquire(t)

\* Every thread inside a call is scheduled again and again, and a thread
\* that asks for the mutex again and again gets it; whether a thread begins
\* another call, and whether a wait wakes unnotified, is left open.
SpecPoolLive ==
    /\ InitPoolLive
    /\ [][NextPoolLive]_vars
    /\ \A t \in LiveThreads : WF_vars(Proceed(t)) /\ SF_vars(Acquire(t))

-----------------------------------------------------------------------------
(* db::DBReader stepped call by call.                                      *)

\* reader.next(), once more.
ReaderNext ==
    /\ reading.calls < MaxCalls
    /\ LET n == next(reading.reader)
       IN  /\ reading' = [reader |-> n.reader, calls |-> reading.calls + 1,
                           trues |-> reading.trues + (IF n.ret THEN 1 ELSE 0), ret |-> n.ret]
           /\ last' = Done("DBReader.next", reading.calls + 1, <<>>, "none", Returned(n.ret))
    /\ UNCHANGED <<T, poolVars, cursorVars, conn>>

\* executeQuery has answered with a reader of up to MaxRows rows.
InitReader ==
    /\ T = FXInstrument2Traits
    /\ last = Nothing
    /\ PoolInit
    /\ ResultSetInit
    /\ ConnInit
    /\ \E k \in 0..MaxRows :
          reading = Reading(DBReader(NameList(T.columns),
                                     [i \in 1..k |-> RowOf(T, SampleEntity(T))]))

NextReader ==
    \/ ReaderNext
    \/ GetByIdReader

\* A DBReader stepped by its user, and by Repository::getById.
SpecReader == InitReader /\ [][NextReader]_vars

-----------------------------------------------------------------------------
(* database::Connection and the two mock connections.                      *)

OpenConnection ==
    /\ ~conn.alive
    /\ \E dbType \in DatabaseTypes :
          /\ conn' = openConnection(dbType)
          /\ last' = Done("openConnection", dbType, <<>>, "none", Returned("Connection"))
    /\ UNCHANGED <<T, poolVars, cursorVars, reading>>

ExecQuery ==
    /\ conn.alive
    /\ \E query \in Queries :
          last' = Done("execQuery", query, <<>>, "none", execQuery(conn, query))
    /\ UNCHANGED <<T, poolVars, cursorVars, conn, reading>>

ExecCommand ==
    /\ conn.alive
    /\ \E command \in Commands :
          last' = Done("execCommand", command, <<>>, "none", execCommand(conn, command))
    /\ UNCHANGED <<T, poolVars, cursorVars, conn, reading>>

IsConnected ==
    /\ conn.alive
    /\ last' = Done("isConnected", "none", <<>>, "none", Returned(conn.connected_))
    /\ UNCHANGED <<T, poolVars, cursorVars, conn, reading>>

Close ==
    /\ conn.alive
    /\ conn' = close(conn)
    /\ last' = Done("close", "none", <<>>, "none", Returned("void"))
    /\ UNCHANGED <<T, poolVars, cursorVars, reading>>

\* The last shared_ptr to the connection goes away.
Destroy ==
    /\ conn.alive
    /\ conn' = destroy(conn)
    /\ last' = Done("~Connection", "none", <<>>, "none", Returned("void"))
    /\ UNCHANGED <<T, poolVars, cursorVars, reading>>

InitConn ==
    /\ T = FXInstrument2Traits
    /\ last = Nothing
    /\ PoolInit
    /\ ResultSetInit
    /\ ConnInit
    /\ ReadingInit

NextConn ==
    \/ OpenConnection
    \/ ExecQuery
    \/ ExecCommand
    \/ IsConnected
    \/ Close
    \/ Destroy

\* A connection opened, used, closed and destroyed.
SpecConn == InitConn /\ [][NextConn]_vars

-----------------------------------------------------------------------------
(* database::ResultSet and the cursor loop over it.                        *)

AddRow ==
    /\ Len(resultSet.rows_) < MaxRows
    /\ \E row \in ResultRows :
          /\ resultSet' = addRow(resultSet, row)
          /\ last' = Done("ResultSet.addRow", row, <<>>, "none", Returned("void"))
    /\ UNCHANGED <<T, poolVars, cursor, conn, reading>>

ResultSetNext ==
    /\ cursor.calls < MaxCalls
    /\ \E n \in ResultSet_next(resultSet) :
          /\ resultSet' = n.rs
          /\ cursor' = [calls |-> cursor.calls + 1,
                        size0 |-> IF cursor.calls = 0 THEN Len(resultSet.rows_) ELSE cursor.size0,
                        ret |-> n.ret, ended |-> cursor.ended \/ ~n.ret]
          /\ last' = Done("ResultSet.next", cursor.calls + 1, <<>>, "none", Returned(n.ret))
    /\ UNCHANGED <<T, poolVars, conn, reading>>

GetField ==
    /\ \E columnName \in FieldNames :
          last' = Done("ResultSet.getField", columnName, <<>>, "none", getField(resultSet, columnName))
    /\ UNCHANGED <<T, poolVars, cursorVars, conn, reading>>

GetInt ==
    /\ \E columnName \in FieldNames :
          last' = Done("ResultSet.getInt", columnName, <<>>, "none", getInt(resultSet, columnName))
    /\ UNCHANGED <<T, poolVars, cursorVars, conn, reading>>

GetDouble ==
    /\ \E columnName \in FieldNames :
          last' = Done("ResultSet.getDouble", columnName, <<>>, "none", getDouble(resultSet, columnName))
    /\ UNCHANGED <<T, poolVars, cursorVars, conn, reading>>

IsNull ==
    /\ \E columnName \in FieldNames :
          last' = Done("ResultSet.isNull", columnName, <<>>, "none", Returned(isNull(resultSet, columnName)))
    /\ UNCHANGED <<T, poolVars, cursorVars, conn, reading>>

InitCursor ==
    /\ T = FXInstrument2Traits
    /\ last = Nothing
    /\ PoolInit
    /\ ResultSetInit
    /\ ConnInit
    /\ ReadingInit

NextCursor ==
    \/ AddRow
    \/ ResultSetNext
    \/ GetField
    \/ GetInt
    \/ GetDouble
    \/ IsNull

\* A ResultSet being filled and read.
SpecCursor == InitCursor /\ [][NextCursor]_vars

-----------------------------------------------------------------------------
(* What the statements and parameter lists are to be, written without the  *)
(* builders' loops.                                                        *)

RECURSIVE JoinWith(_, _)
JoinWith(parts, sep) ==
    IF parts = <<>> THEN ""
    ELSE IF Len(parts) = 1 THEN parts[1]
    ELSE parts[1] \o sep \o JoinWith(Tail(parts), sep)

Placeholder(k) == "$" \o ToString(k)
FieldJson(obj, col) == ToJsonValue(col.kind, obj[col.name])
NonPkColumns(S) == SelectSeq(S.columns, LAMBDA c : c.name # S.primaryKey)
PkColumns(S) == SelectSeq(S.columns, LAMBDA c : c.name = S.primaryKey)

FXInstrument2InsertText ==
    "INSERT INTO FXInstrument2 (id, userId, instrumentId, side, quantity, price, timestamp) VALUES ($1, $2, $3, $4, $5, $6, $7)"

\* C1: insert hands the executor 'INSERT INTO <table> (c1, ..., cN) VALUES
\* ($1, ..., $N)', the columns in declared order with the primary key among
\* them, and exactly N parameters, the k-th being the object's member for
\* the k-th declared column.
C1_InsertAlignment ==
    last.op = "insert" =>
        LET N == Len(T.columns)
            c == last.calls[1]
        IN  /\ c.sql = "INSERT INTO " \o T.tableName
                         \o " (" \o JoinWith(NameList(T.columns), ", ")
                         \o ") VALUES (" \o JoinWith([k \in 1..N |-> Placeholder(k)], ", ")
                         \o ")"
            /\ Len(c.params) = N
            /\ \A k \in 1..N : c.params[k] = FieldJson(last.arg, T.columns[k])
            /\ (T = FXInstrument2Traits => c.sql = FXInstrument2InsertText)

C1_Witness ==
    /\ last.op = "insert"
    /\ T = FXInstrument2Traits
    /\ last.arg = [SampleEntity(T) EXCEPT !["side"] = ""]
    /\ last.calls[1].sql = FXInstrument2InsertText
    /\ last.calls[1].params[4] = JStr("")
    /\ last.calls[1].params[5] = JFloat(15)

FXInstrument2UpdateText ==
    "UPDATE FXInstrument2 SET userId=$1, instrumentId=$2, side=$3, quantity=$4, price=$5, timestamp=$6 WHERE id=$7"

\* C2: for a schema with exactly one primary-key column among its N, update
\* hands the executor 'UPDATE <table> SET c=$1, ... WHERE <primaryKey>=$N'
\* with the non-primary-key columns in declared order, and the parameters
\* are their members in that order followed by the primary key's member.
C2_UpdateAlignment ==
    (last.op = "update" /\ PkCount(T) = 1) =>
        LET N == Len(T.columns)
            rest == NonPkColumns(T)
            c == last.calls[1]
        IN  /\ Len(rest) = N - 1
            /\ c.sql = "UPDATE " \o T.tableName \o " SET "
                         \o JoinWith([k \in 1..(N - 1) |-> rest[k].name \o "=" \o Placeholder(k)], ", ")
                         \o " WHERE " \o T.primaryKey \o "=" \o Placeholder(N)
            /\ Len(c.params) = N
            /\ \A k \in 1..(N - 1) : c.params[k] = FieldJson(last.arg, rest[k])
            /\ c.params[N] = FieldJson(last.arg, PkColumns(T)[1])
            /\ (T = FXInstrument2Traits => c.sql = FXInstrument2UpdateText)

\* An update of a three-column entity whose primary key is declared second.
C2_Witness ==
    /\ last.op = "update"
    /\ Len(T.columns) = 3
    /\ T.columns[2].name = T.primaryKey
    /\ last.arg = SampleEntity(T)
    /\ Len(last.calls[1].params) = 3

\* C3: for a schema with exactly one primary-key column, remove hands the
\* executor 'DELETE FROM <table> WHERE <primaryKey>=$1' and one parameter,
\* the object's primary-key member, wherever that column is declared.
C3_DeleteByPrimaryKey ==
    (last.op = "remove" /\ PkCount(T) = 1) =>
        LET c == last.calls[1]
        IN  /\ c.sql = "DELETE FROM " \o T.tableName \o " WHERE " \o T.primaryKey \o "=$1"
            /\ c.params = << FieldJson(last.arg, PkColumns(T)[1]) >>
            /\ (T = FXInstrument2Traits => c.sql = "DELETE FROM FXInstrument2 WHERE id=$1")

\* A remove of an entity whose primary key is declared last of three.
C3_Witness ==
    /\ last.op = "remove"
    /\ Len(T.columns) = 3
    /\ T.columns[3].name = T.primaryKey
    /\ last.arg = SampleEntity(T)
    /\ last.calls[1].params = << JInt(42) >>

\* C4: fromJson(toJson(e)) = e on every schema column, for the generic
\* codecs and for the hand-written User and Trade.
C4_RoundTrip ==
    /\ (last.op \in { "roundTrip", "User.roundTrip", "Trade.roundTrip" }) =>
           last.ret = Returned(last.arg)
    /\ (last.op = "model.roundTrip") => last.ret = Returned(last.arg.obj)

RepositoryOps == { "insert", "update", "remove", "getById", "getAll", "getByIdReader" }

\* The statement of an operation, from the schema alone.
SqlTextOf(op, S) ==
    LET N == Len(S.columns)
        rest == NonPkColumns(S)
    IN  CASE op = "insert" ->
               "INSERT INTO " \o S.tableName \o " (" \o JoinWith(NameList(S.columns), ", ")
                   \o ") VALUES (" \o JoinWith([k \in 1..N |-> Placeholder(k)], ", ") \o ")"
          [] op = "update" ->
               "UPDATE " \o S.tableName \o " SET "
                   \o JoinWith([k \in 1..Len(rest) |-> rest[k].name \o "=" \o Placeholder(k)], ", ")
                   \o " WHERE " \o S.primaryKey \o "=" \o Placeholder(Len(rest) + 1)
          [] op = "remove" -> "DELETE FROM " \o S.tableName \o " WHERE " \o S.primaryKey \o "=$1"
          [] op = "getById" -> "SELECT * FROM " \o S.tableName \o " WHERE " \o S.primaryKey \o "=$1"
          [] op = "getByIdReader" ->
               "SELECT * FROM " \o S.tableName \o " WHERE " \o S.primaryKey \o " = $1"
          [] op = "getAll" -> "SELECT * FROM " \o S.tableName

\* C5: the statement insert, update, remove, getById and getAll hand to the
\* executor is the text the schema alone gives, with $k where a value goes;
\* two calls in a row of the same operation, whatever their entities or
\* ids, hand over the same text; the id of getById is in the parameter list.
C5_SqlFromSchemaOnly ==
    [][ (last'.op \in RepositoryOps) =>
            /\ Len(last'.calls) = 1
            /\ last'.calls[1].sql = SqlTextOf(last'.op, T)
            /\ (last.op = last'.op) => last'.calls[1].sql = last.calls[1].sql
            /\ (last'.op = "getById") => last'.calls[1].params = << JInt(last'.arg) >>
            /\ (last'.op = "getByIdReader") => last'.calls[1].params = << ToString(last'.arg) >>
            /\ (last'.op = "getAll") => last'.calls[1].params = <<>> ]_vars

\* getById(42): the id is the parameter and the text holds $1 in its place.
C5_Witness ==
    /\ last.op = "getById"
    /\ last.arg = 42
    /\ T.primaryKey = "id"
    /\ last.calls[1].sql = "SELECT * FROM trades WHERE id=$1"
    /\ last.calls[1].params = << JInt(42) >>

\* The executor answered without a row.
NoRow ==
    \/ /\ last.op = "getById"
       /\ last.reply.ok
       /\ last.reply.v.t = "null" \/ Keys(last.reply.v) = <<>>
    \/ /\ last.op = "getByIdReader"
       /\ last.reply.ok
       /\ last.reply.v.rows_ = <<>>

\* C6 as claimed: getById on a result without a row fails with NotFoundError.
C6_NotFoundError == NoRow => last.ret = Thrown("NotFoundError")

\* C6, amended: on a result without a row, getById over IDatabase2 hands the
\* result to T::fromJson and lets the json exception of the first column's
\* lookup through (type_error 304 on null, out_of_range 403 on an empty
\* object); getById over db::IDatabase returns the empty optional.  Neither
\* returns a default-constructed entity.
C6_NoRowOutcome ==
    NoRow =>
        /\ last.ret # Returned(DefaultEntity(T))
        /\ (last.op = "getById") =>
               last.ret = Thrown(IF last.reply.v.t = "null" THEN "json.type_error.304"
                                 ELSE "json.out_of_range.403")
        /\ (last.op = "getByIdReader") => last.ret = Returned(NullOpt)

C6_Witness ==
    /\ last.op = "getById"
    /\ last.reply = Returned(JObject(<<>>))
    /\ last.ret = Thrown("json.out_of_range.403")

\* The JSON type nlohmann gives a member of the kind.
JsonTypeOf(kind) ==
    CASE kind = "int" -> "int" [] kind = "double" -> "float" [] OTHER -> "string"

\* The row holds every schema column.
FullRow(S, j) == j.t = "object" /\ \A n \in ColNames(S) : JsonContains(j, n)

\* ... and each member is a value of its column's own JSON type.
TypedRow(S, j) ==
    /\ FullRow(S, j)
    /\ \A k \in 1..Len(S.columns) :
          JsonAt(j, S.columns[k].name).v.t = JsonTypeOf(S.columns[k].kind)

GetByIdAsks ==
    last.calls = << Call("queryOnePrepared",
                         "SELECT * FROM " \o T.tableName \o " WHERE " \o T.primaryKey \o "=$1",
                         << JInt(last.arg) >>) >>

RowDecoded ==
    /\ last.ret.ok
    /\ \A k \in 1..Len(T.columns) :
          FieldJson(last.ret.v, T.columns[k]) = JsonAt(last.reply.v, T.columns[k].name).v

\* C7 as claimed: whenever the row holds every schema column, the entity
\* returned equals the row column by column.
C7_DecodesAnyFullRow ==
    (last.op = "getById") =>
        /\ GetByIdAsks
        /\ (last.reply.ok /\ FullRow(T, last.reply.v)) => RowDecoded

\* C7, amended: getById calls queryOnePrepared with 'SELECT * FROM <table>
\* WHERE <primaryKey>=$1' and [id]; when the row holds every schema column
\* and each member is a non-null value of its column's JSON type (integer
\* for int, floating point for double, string for std::string), the entity
\* returned equals the row column by column.
C7_DecodesTypedRow ==
    (last.op = "getById") =>
        /\ GetByIdAsks
        /\ (last.reply.ok /\ TypedRow(T, last.reply.v)) => RowDecoded

\* The demonstration's call: getById(42) on FXInstrument2 through MyDatabase.
C7_Witness ==
    /\ last.op = "getById"
    /\ T = FXInstrument2Traits
    /\ last.arg = 42
    /\ last.reply = Returned(JsonRow(T, [DefaultEntity(T) EXCEPT !["id"] = 42]))
    /\ last.ret = Returned([DefaultEntity(T) EXCEPT !["id"] = 42])

\* The JSON handed to a fromJson and the schema it is decoded for.
DecodeOps == { "fromJson", "model.fromJson", "Trade.fromJson" }
DecodedJson == IF last.op = "model.fromJson" THEN last.arg.j ELSE last.arg
DecodedFor == IF last.op = "Trade.fromJson" THEN TradeMembers ELSE T

\* An object without some column's key, every member it has being null or a
\* value of its column's JSON type.
PartialRow(S, j) ==
    /\ j.t = "object"
    /\ \E n \in ColNames(S) : ~JsonContains(j, n)
    /\ \A k \in 1..Len(S.columns) :
          JsonContains(j, S.columns[k].name) =>
              JsonAt(j, S.columns[k].name).v.t \in { "null", JsonTypeOf(S.columns[k].kind) }

\* Absent and null columns at the default, the others as the JSON has them
\* (a Timestamp is its text parsed, not compared here).
DefaultFilled(S, j, obj) ==
    \A k \in 1..Len(S.columns) :
        LET col == S.columns[k]
        IN  IF ~JsonContains(j, col.name) \/ JsonAt(j, col.name).v.t = "null"
            THEN obj[col.name] = DefaultVal(col.kind)
            ELSE col.kind # "timestamp" => FieldJson(obj, col) = JsonAt(j, col.name).v

\* C8 as claimed: every fromJson succeeds on an object that lacks column
\* keys, the absent columns left at their defaults.
C8_AbsenceTolerated ==
    (last.op \in DecodeOps /\ PartialRow(DecodedFor, DecodedJson)) =>
        /\ last.ret.ok
        /\ DefaultFilled(DecodedFor, DecodedJson, last.ret.v)

\* The first column, in declared order, whose key is absent or holds null.
FirstUnset(S, j) ==
    LET unset(k) == \/ ~JsonContains(j, S.columns[k].name)
                    \/ JsonAt(j, S.columns[k].name).v.t = "null"
    IN  CHOOSE k \in 1..Len(S.columns) : unset(k) /\ \A m \in 1..(k - 1) : ~unset(m)

\* C8, amended: model::autoFromJson succeeds on an object that lacks column
\* keys, absent and null columns left at their type defaults and present
\* ones set from the JSON; autoFromJson of the prepared-statement header and
\* the hand-written from_json read each column with j.at(key).get_to and
\* fail at the first column that is absent (out_of_range 403) or null
\* (type_error 302).
C8_AbsenceByVariant ==
    (last.op \in DecodeOps /\ PartialRow(DecodedFor, DecodedJson)) =>
        IF last.op = "model.fromJson"
        THEN /\ last.ret.ok
             /\ DefaultFilled(DecodedFor, DecodedJson, last.ret.v)
        ELSE last.ret =
               Thrown(IF JsonContains(DecodedJson,
                                      DecodedFor.columns[FirstUnset(DecodedFor, DecodedJson)].name)
                      THEN "json.type_error.302" ELSE "json.out_of_range.403")

\* model::autoFromJson on a row without "side": side is left empty.
C8_Witness ==
    /\ last.op = "model.fromJson"
    /\ Len(T.columns) = 3
    /\ JsonContains(last.arg.j, "id")
    /\ ~JsonContains(last.arg.j, "side")
    /\ last.ret.ok
    /\ last.ret.v["side"] = ""
    /\ last.ret.v["id"] = 42

EncodeOps == { "toJson", "model.toJson" }

\* The key set is the column names and each key holds its column's member.
ColumnsAsMembers ==
    /\ last.ret.v.t = "object"
    /\ Len(Keys(last.ret.v)) = Len(T.columns)
    /\ \A k \in 1..Len(T.columns) :
          LET col == T.columns[k]
          IN  /\ JsonContains(last.ret.v, col.name)
              /\ JsonAt(last.ret.v, col.name).v =
                     IF col.kind = "timestamp"
                     THEN JStr(timePointToString(last.arg[col.name]))
                     ELSE FieldJson(last.arg, col)

\* C9 as claimed: the keys come in the schema's declared column order.
C9_KeysInDeclaredOrder ==
    (last.op \in EncodeOps) =>
        /\ ColumnsAsMembers
        /\ Keys(last.ret.v) = NameList(T.columns)

\* C9, amended: toJson produces one flat object whose key set is the
\* schema's column names, each key holding the entity's member for that
\* column; the keys come in ascending byte order of their names, whatever
\* the declared order.
C9_KeysInByteOrder ==
    (last.op \in EncodeOps) =>
        /\ ColumnsAsMembers
        /\ \A a, b \in 1..Len(Keys(last.ret.v)) :
              a < b => KeyRank(Keys(last.ret.v)[a]) < KeyRank(Keys(last.ret.v)[b])

\* Declared side, price, id; emitted id, price, side.
C9_Witness ==
    /\ last.op = "toJson"
    /\ NameList(T.columns) = << "side", "price", "id" >>
    /\ last.arg = SampleEntity(T)
    /\ Keys(last.ret.v) = << "id", "price", "side" >>

\* C10: in every state of every interleaving of borrow() and release(), no
\* connection is held by two threads, and no connection a thread holds is
\* also in the idle queue.
C10_OneOwner ==
    /\ \A t1, t2 \in Threads :
          (t1 # t2 /\ held[t1] # NoConn) => held[t1] # held[t2]
    /\ \A t \in Threads :
          held[t] # NoConn => \A i \in 1..Len(pool_) : pool_[i] # held[t]

\* Every connection is out with a different owner, the queue is empty and
\* one more thread is blocked in borrow().
C10_Witness ==
    /\ pool_ = <<>>
    /\ \A c \in Conns : \E t \in Threads : pc[t] = "owner" /\ held[t] = c
    /\ \E t \in Threads : pc[t] = "b_blocked"

\* The connections in the idle queue (a moved-from front is none).
Idle == { pool_[i] : i \in 1..Len(pool_) } \ { NoConn }
Leased == { held[t] : t \in Threads } \ { NoConn }

\* C11: executeQuery and execute give the connection back on every way out
\* of the scope, a throwing statement or commit included: the idle and the
\* leased connections together are always the pool's, each once, and when
\* no call is in progress the idle queue holds them all.
C11_GuardReleases ==
    /\ Idle \cup Leased = Conns
    /\ Cardinality(Idle) + Cardinality(Leased) = PoolSize
    /\ Len(pool_) <= PoolSize
    /\ \A t \in Threads :
          (pc[t] = "idle") => held[t] = NoConn
    /\ (\A t \in Threads : pc[t] = "idle") => (Idle = Conns /\ Len(pool_) = PoolSize)

\* Every thread is back from its call, one after a throwing statement and
\* one after a throwing commit, and the queue is full again.
C11_Witness ==
    /\ \A t \in Threads : pc[t] = "idle"
    /\ \E t \in Threads : call[t].thrown = "exec_params"
    /\ \E t \in Threads : call[t].thrown = "commit"
    /\ Len(pool_) = PoolSize

\* The positions of borrow() at which the caller holds the mutex.
InBorrowSection == { "b_wait", "b_front", "b_pop", "b_return" }

\* C12: a borrow() that finds the queue empty blocks, and goes on only by
\* testing the queue again under the mutex; it takes a connection only in
\* the critical section in which it saw the queue non-empty, takes the
\* queue's front, and returns with that connection; it never throws.
C12_BorrowBlocks ==
    [][ \A t \in Threads :
          /\ (pc'[t] \in InBorrowSection) => mutex_' = t
          /\ (pc[t] = "b_wait" /\ pc'[t] # "b_wait") =>
                 IF pool_ = <<>> THEN pc'[t] = "b_blocked" /\ held'[t] = NoConn
                 ELSE pc'[t] = "b_front" /\ pool_' = pool_
          /\ (pc[t] = "b_blocked" /\ pc'[t] # "b_blocked") => pc'[t] = "b_wait"
          /\ (pc'[t] = "b_front" /\ pc[t] # "b_front") =>
                 (pc[t] = "b_wait" /\ mutex_ = t /\ pool_ # <<>>)
          /\ (pc[t] = "b_front" /\ pc'[t] # "b_front") =>
                 /\ pc'[t] = "b_pop"
                 /\ held'[t] = Head(pool_)
                 /\ held'[t] \in Conns
          /\ (pc'[t] = "owner" /\ pc[t] # "owner") =>
                 /\ pc[t] = "b_return"
                 /\ held'[t] \in Conns
                 /\ held'[t] = held[t]
                 /\ call'[t].thrown = "none" ]_vars

\* A thread that blocked on the empty queue has been notified by a release
\* that put a connection back, and has not yet taken the mutex again.
C12_Witness ==
    \E t, u \in Threads :
        /\ pc[t] = "b_blocked"
        /\ t \notin waiting
        /\ pc[u] = "r_unlock"
        /\ Len(pool_) = 1
        /\ pool_[1] \in Conns

\* The executor function each Repository operation goes through.
ExecutorFn(op) ==
    CASE op = "getById" -> "queryOnePrepared"
      [] op = "getAll" -> "queryManyPrepared"
      [] op = "getByIdReader" -> "executeQuery"
      [] OTHER -> "executePrepared"

\* C13: each Repository operation calls the executor exactly once, through
\* the function of its kind; when that call throws, the caller gets that
\* very exception and no second call is made.
C13_OneCallNoRetry ==
    (last.op \in RepositoryOps) =>
        /\ Len(last.calls) = 1
        /\ last.calls[1].fn = ExecutorFn(last.op)
        /\ (~last.reply.ok) => last.ret = last.reply

\* An update whose execute failed: one call, the failure handed on.
C13_Witness ==
    /\ last.op = "update"
    /\ last.reply = Thrown("ExecutionError")
    /\ last.ret = Thrown("ExecutionError")
    /\ Len(last.calls) = 1
    /\ last.calls[1].fn = "executePrepared"

\* The value is of a JSON type the field's get_to does not take.
JsonRejected(kind, v) ==
    CASE kind = "int" -> v.t \notin { "int", "float", "boolean" }
      [] kind = "double" -> v.t \notin { "int", "float" }
      [] OTHER -> v.t # "string"

\* The value is no value of the column's kind: the JSON type is another, or
\* the number has a fraction an int cannot hold.
JsonUncoercible(kind, v) ==
    CASE kind = "int" -> v.t # "int" /\ ~(v.t = "float" /\ v.i % 10 = 0)
      [] kind = "double" -> v.t \notin { "int", "float" }
      [] OTHER -> v.t # "string"

\* What a number or boolean becomes in a field of another arithmetic type
\* (tenths for a double).
JsonConverted(kind, v) ==
    CASE kind = "int" /\ v.t = "float" -> IF v.i >= 0 THEN v.i \div 10 ELSE -((-v.i) \div 10)
      [] kind = "int" -> v.i
      [] kind = "double" /\ v.t = "int" -> v.i * 10
      [] kind = "double" -> v.i
      [] OTHER -> v.s

\* A row in which every column is present and not null.
FilledRow(S, j) ==
    /\ FullRow(S, j)
    /\ \A k \in 1..Len(S.columns) : JsonAt(j, S.columns[k].name).v.t # "null"

JsonDecodeOps == { "fromJson", "model.fromJson" }

\* The integer std::stoi finds at the head of a text (none: -1000), and the
\* tenths std::stod finds there.
LeadingInt(text) ==
    CASE text \in { "42", " 42", "42abc" } -> 42
      [] text = "0" -> 0
      [] text = "-7" -> -7
      [] text = "1.5" -> 1
      [] OTHER -> -1000

LeadingTenths(text) == IF text = "1.5" THEN 15 ELSE LeadingInt(text) * 10

\* The text is the numeral of a value of the kind, and nothing else.
IsNumeral(kind, text) ==
    \/ text \in { "0", "42", "-7" }
    \/ kind = "double" /\ text = "1.5"

BuilderOps == { "insert", "update", "remove" }

\* C15 as claimed: a schema whose primary key names no column is refused
\* when it is declared, so insert, update and remove only ever build for a
\* schema with exactly one primary-key column.
C15_OnlyCheckedSchemas ==
    (last.op \in BuilderOps) => (PkCount(T) = 1 /\ Len(T.columns) > 0)

\* C15, amended: nothing checks a schema: an EntityTraits specialization
\* whose primaryKey names no column is used as declared, no
\* SchemaDefinitionError exists, and the builders and binders run on it.
\* For such a schema of N columns update sends a statement numbered up to
\* $(N+1) with N parameters and remove sends 'WHERE <primaryKey>=$1' with
\* no parameter; with exactly one primary-key column update sends $1..$N
\* with N parameters and remove $1 with one.
C15_NoSchemaCheck ==
    (last.op \in BuilderOps) =>
        LET N == Len(T.columns)
            c == last.calls[1]
        IN  /\ PkCount(T) \in { 0, 1 }
            /\ c.sql = SqlTextOf(last.op, T)
            /\ last.ret = (IF last.reply.ok THEN Returned("void") ELSE last.reply)
            /\ (last.op = "update") =>
                   /\ Len(NonPkColumns(T)) + 1 = (IF PkCount(T) = 0 THEN N + 1 ELSE N)
                   /\ Len(c.params) = N
            /\ (last.op = "remove") => Len(c.params) = PkCount(T)

\* An update for a three-column schema whose primary key, rowid, is no
\* column: WHERE binds $4 and three parameters are sent.
C15_Witness ==
    /\ last.op = "update"
    /\ T.primaryKey = "rowid"
    /\ Len(T.columns) = 3
    /\ last.calls[1].sql = "UPDATE trades SET id=$1, side=$2, price=$3 WHERE rowid=$4"
    /\ Len(last.calls[1].params) = 3
    /\ last.ret = Returned("void")

\* The rows the loop reads after skip rows were passed over.
RowsRead == SubSeq(last.arg.reader.rows_, last.arg.skip + 1, Len(last.arg.reader.rows_))

\* The result's column names are the schema's, and every row read has a
\* cell for each of them and no more.
ExpectedColumnSet ==
    /\ last.arg.reader.columnNames_ = NameList(T.columns)
    /\ \A r \in 1..Len(RowsRead) : Len(RowsRead[r]) = Len(T.columns)

MismatchErrors == { "ColumnCountMismatchError", "Column count mismatch in DBReader" }

\* C17 as claimed: a row without exactly the schema's columns makes the
\* decoding fail with the column-count error, whichever row it is.
C17_EveryRowChecked ==
    /\ (last.op = "DBReader.readAll" /\ RowsRead # <<>> /\ ~ExpectedColumnSet) =>
           (~last.ret.ok /\ last.ret.err \in MismatchErrors)
    /\ (last.op = "getById" /\ last.reply.ok /\ last.reply.v.t = "object"
          /\ Keys(last.reply.v) # <<>>
          /\ { Keys(last.reply.v)[i] : i \in 1..Len(Keys(last.reply.v)) } # ColNames(T)) =>
           (~last.ret.ok /\ last.ret.err \in MismatchErrors)

\* The first schema column the JSON row has no member for, 0 if none.
FirstMissing(S, j) ==
    LET missing == { k \in 1..Len(S.columns) : ~JsonContains(j, S.columns[k].name) }
    IN  IF missing = {} THEN 0 ELSE CHOOSE k \in missing : \A m \in missing : k <= m

\* C17, amended: DBReader compares only the number of the result's column
\* names with the number of schema columns, and only when the row read is
\* the result's first (currentRow_ == 0): then a different number fails with
\* std::runtime_error "Column count mismatch in DBReader".  Rows after the
\* first are not checked, and names are never compared.  A row is decoded
\* by position: one with fewer cells than the schema has columns fails with
\* std::out_of_range, one with more is decoded and the rest ignored.  A JSON
\* row is decoded by key: when the columns before the first missing one are
\* of their JSON type the missing one fails with json out_of_range 403; a
\* typed row with a key the schema does not declare is decoded.
C17_FirstRowChecked ==
    /\ (last.op = "DBReader.readAll") =>
          LET N == Len(T.columns)
              shortRows == { r \in 1..Len(RowsRead) : Len(RowsRead[r]) < N }
          IN  IF RowsRead # <<>> /\ last.arg.skip = 0 /\ Len(last.arg.reader.columnNames_) # N
              THEN last.ret = Thrown("Column count mismatch in DBReader")
              ELSE IF shortRows # {}
              THEN last.ret = Thrown("std::out_of_range")
              ELSE last.ret.ok /\ Len(last.ret.v) = Len(RowsRead)
    /\ (last.op = "getById" /\ last.reply.ok /\ last.reply.v.t = "object"
          /\ Keys(last.reply.v) # <<>>) =>
          LET j == last.reply.v
              f == FirstMissing(T, j)
          IN  /\ (f # 0 /\ \A k \in 1..(f - 1) :
                      JsonAt(j, T.columns[k].name).v.t = JsonTypeOf(T.columns[k].kind)) =>
                     last.ret = Thrown("json.out_of_range.403")
              /\ (TypedRow(T, j) /\ JsonContains(j, ExtraKey)) => RowDecoded

\* The first row passed over, the second decoded from a result that names
\* one column too few: no error.
C17_Witness ==
    /\ last.op = "DBReader.readAll"
    /\ last.arg.skip = 1
    /\ Len(last.arg.reader.columnNames_) = Len(T.columns) - 1
    /\ Len(last.arg.reader.rows_) = 2
    /\ last.ret.ok
    /\ Len(last.ret.v) = 1

WriteOps == { "insert", "update", "remove" }

\* C18: insert, update and remove return normally whatever count execute
\* returned, 0 included; the count is neither returned nor made a failure.
C18_CountDiscarded ==
    (last.op \in WriteOps /\ last.reply.ok) =>
        /\ last.reply.v \in Nat
        /\ last.ret = Returned("void")

\* A remove that affected no row, and completed.
C18_Witness ==
    /\ last.op = "remove"
    /\ last.reply = Returned(0)
    /\ last.ret = Returned("void")

RowsSettled == cursor.calls >= 1 /\ Len(resultSet.rows_) = cursor.size0

\* C20 as claimed: on a result set of n rows the k-th call of next() returns
\* true exactly when k <= n, and is then on the k-th row added; getField of
\* a column that row holds returns its value.
C20_NextIffRow ==
    RowsSettled =>
        /\ cursor.ret = (cursor.calls <= Len(resultSet.rows_))
        /\ cursor.ret => resultSet.currentRow_ = cursor.calls - 1
        /\ (last.op = "ResultSet.getField" /\ cursor.calls <= Len(resultSet.rows_)
              /\ last.arg \in DOMAIN resultSet.rows_[cursor.calls]) =>
               last.ret = Returned(resultSet.rows_[cursor.calls][last.arg])

\* The text 'YYYY-MM-DD HH:MM:SS' of an instant of January 1970, in UTC.
UtcText(tt) ==
    "1970-01-" \o Pad2((tt \div 86400) + 1) \o " " \o Pad2((tt % 86400) \div 3600) \o ":"
        \o Pad2((tt % 3600) \div 60) \o ":" \o Pad2(tt % 60)

\* C21: for a timestamp t of whole seconds the text is t's UTC rendering
\* and stringToTimePoint gives t back, whatever the local time zone; the
\* empty text gives the epoch.
C21_TimestampRoundTrip ==
    /\ (last.op = "Timestamp.roundTrip" /\ last.arg.t % TicksPerSec = 0) =>
           /\ last.ret.v.str = UtcText(last.arg.t \div TicksPerSec)
           /\ last.ret.v.tp = last.arg.t
    /\ (last.op = "stringToTimePoint" /\ last.arg.str = "") => last.ret = Returned(0)

\* The rows of the reply that fromJson does not decode.
FailingRows == { i \in 1..Len(last.reply.v) : ~fromJson(T, last.reply.v[i]).ok }

\* C22: when a row returned to getAll does not decode, getAll ends with the
\* failure of the first such row and returns no collection, not even of
\* the rows decoded before it.
C22_AllOrNothing ==
    (last.op = "getAll" /\ last.reply.ok /\ FailingRows # {}) =>
        LET first == CHOOSE i \in FailingRows : \A k \in FailingRows : i <= k
        IN  /\ ~last.ret.ok
            /\ last.ret = fromJson(T, last.reply.v[first])

\* Two rows, the first decodes and the second does not: a failure, no
\* collection of one.
C22_Witness ==
    /\ last.op = "getAll"
    /\ last.reply.ok
    /\ Len(last.reply.v) = 2
    /\ FailingRows = { 2 }
    /\ ~last.ret.ok

\* The parameters of an operation, from its argument and the schema alone.
ParamsOf(op, arg, S) ==
    LET rest == NonPkColumns(S)
        pk == PkColumns(S)
    IN  CASE op = "insert" -> [k \in 1..Len(S.columns) |-> FieldJson(arg, S.columns[k])]
          [] op = "update" ->
               [k \in 1..Len(rest) |-> FieldJson(arg, rest[k])]
                   \o [k \in 1..Len(pk) |-> FieldJson(arg, pk[k])]
          [] op = "remove" -> [k \in 1..Len(pk) |-> FieldJson(arg, pk[k])]
          [] op = "getById" -> << JInt(arg) >>
          [] op = "getByIdReader" -> << ToString(arg) >>
          [] op = "getAll" -> <<>>

\* C23: whatever was called before and whatever it gave, a Repository call
\* hands the executor the one call that its own argument and the schema
\* give; the schema is the same after the call as before.
C23_NoRetainedState ==
    [][ /\ T' = T
        /\ (last'.op \in RepositoryOps) =>
               last'.calls = << Call(ExecutorFn(last'.op), SqlTextOf(last'.op, T),
                                    ParamsOf(last'.op, last'.arg, T)) >> ]_vars

\* An insert of the sample entity on a two-column schema, after whatever
\* came before: the statement and parameters of that entity alone.
C23_Witness ==
    /\ last.op = "insert"
    /\ last.arg = SampleEntity(T)
    /\ Len(T.columns) = 2
    /\ last.calls[1].sql = "INSERT INTO trades (" \o T.columns[1].name \o ", "
                               \o T.columns[2].name \o ") VALUES ($1, $2)"
    /\ last.calls[1].params = ParamsOf("insert", SampleEntity(T), T)

NotConnected == Thrown("Not connected to database")

\* C24: execQuery and execCommand on a closed PostgreSQLConnection or
\* SybaseConnection fail with 'Not connected to database' and leave it
\* closed; on a connected one they return and do not raise that error.
C24_ClosedConnectionRefuses ==
    [][ (last'.op \in { "execQuery", "execCommand" }) =>
            /\ conn' = conn
            /\ IF conn.connected_ THEN last'.ret.ok /\ last'.ret # NotConnected
               ELSE last'.ret = NotConnected ]_vars

\* An execCommand on a Sybase connection that was closed.
C24_Witness ==
    /\ last.op = "execCommand"
    /\ conn.alive
    /\ conn.dbType_ = "Sybase"
    /\ ~conn.connected_
    /\ last.ret = NotConnected

\* C25: openConnection gives a connected connection; close() leaves it not
\* connected and performs the close action only if it was connected, so a
\* second close(), the destructor's included, performs none; no operation
\* on a connection that is not connected makes it connected again.
C25_ConnectionLifecycle ==
    [][ /\ (last'.op = "openConnection") => (conn'.connected_ /\ conn'.closed = 0)
        /\ (last'.op \in { "close", "~Connection" }) =>
               /\ ~conn'.connected_
               /\ conn'.closed = conn.closed + (IF conn.connected_ THEN 1 ELSE 0)
        /\ (~conn.connected_ /\ last'.op # "openConnection") => ~conn'.connected_
        /\ conn'.closed <= 1 ]_vars

\* A connection closed and then destroyed: one close action in all.
C25_Witness ==
    /\ last.op = "~Connection"
    /\ ~conn.alive
    /\ ~conn.connected_
    /\ conn.closed = 1

\* C28: whatever the query, a connected PostgreSQLConnection and a
\* connected SybaseConnection answer execQuery with the same column names
\* and the same rows, and each row's keys are the column names.
C28_Interchangeable ==
    (last.op = "execQuery" /\ last.ret.ok) =>
        /\ \A dbType \in DatabaseTypes :
               LET other == execQuery(openConnection(dbType), last.arg).v
               IN  /\ other.columnNames_ = last.ret.v.columnNames_
                   /\ other.rows_ = last.ret.v.rows_
        /\ \A i \in 1..Len(last.ret.v.rows_) :
               DOMAIN last.ret.v.rows_[i]
                   = { last.ret.v.columnNames_[k] : k \in 1..Len(last.ret.v.columnNames_) }

\* C26: on a reader of n rows the row index stays within -1..n-1; next()
\* returns true on its first n calls and false on every later one, the
\* cursor then staying on the last row; getById reads from the reader only
\* on a row, after next() returned true.
C26_ReaderCursor ==
    LET r == reading.reader
        n == Len(r.rows_)
    IN  /\ r.currentRow_ \in -1..(n - 1)
        /\ reading.trues = (IF reading.calls <= n THEN reading.calls ELSE n)
        /\ r.currentRow_ = reading.trues - 1
        /\ (reading.calls >= 1) => (reading.ret = (reading.calls <= n))
        /\ (last.op = "getByIdReader") =>
               /\ last.ret # UndefinedRead
               /\ (last.reply.ok /\ last.reply.v.rows_ = <<>>) => last.ret = Returned(NullOpt)

\* Two calls of next() past the end of a reader of two rows.
C26_Witness ==
    /\ Len(reading.reader.rows_) = 2
    /\ reading.calls = 4
    /\ reading.trues = 2
    /\ ~reading.ret
    /\ reading.reader.currentRow_ = 1

FieldReads == { "ResultSet.getField", "ResultSet.getInt", "ResultSet.getDouble" }

\* No next() yet, or next() has returned false at some call before.
OffTheRows == cursor.calls = 0 \/ cursor.ended

\* C27: on a result set whose rows were all added before the first next(),
\* getField, getInt and getDouble fail with 'No current row' before the
\* first next() and from the first false next() on, however often next()
\* is called after it, and with 'Column not found' on a row without the
\* column; isNull returns true there; none of them moves the cursor.
C27_FieldReadsOffTheRows ==
    [][ (last'.op \in FieldReads \cup { "ResultSet.isNull" }
          /\ (cursor.calls = 0 \/ RowsSettled)) =>
            /\ resultSet' = resultSet
            /\ IF OffTheRows
               THEN IF last'.op \in FieldReads THEN last'.ret = Thrown("No current row")
                    ELSE last'.ret = Returned(TRUE)
               ELSE (last'.arg \notin DOMAIN resultSet.rows_[cursor.calls]) =>
                        IF last'.op \in FieldReads
                        THEN last'.ret = Thrown("Column not found: " \o last'.arg)
                        ELSE last'.ret = Returned(TRUE) ]_vars

\* C29 as claimed: every thread blocked in borrow() eventually returns from
\* it with a connection.
C29_EveryBorrowerReturns ==
    \A t \in LiveThreads : (pc[t] = "b_blocked") ~> (pc[t] = "owner" /\ held[t] \in Conns)

\* What the pool does guarantee: it never loses a wake-up and never
\* deadlocks, so every thread blocked in borrow() eventually returns with a
\* connection unless calls keep beginning for ever; a thread can be
\* overtaken without end by borrowers that arrive after it, neither the
\* mutex nor notify_one being first come, first served.
C29_ReturnsUnlessOvertaken ==
    \/ []<><<\E t \in LiveThreads : BorrowLock(t)>>_vars
    \/ \A t \in LiveThreads : (pc[t] = "b_blocked") ~> (pc[t] = "owner" /\ held[t] \in Conns)

\* A thread blocked in borrow() while another is inside its call with the
\* pool's one connection.
C29_Witness ==
    /\ pool_ = <<>>
    /\ \E t, u \in LiveThreads :
          /\ pc[t] = "b_blocked"
          /\ t \in waiting
          /\ pc[u] = "owner"
          /\ held[u] \in Conns

\* The names of the columns at the positions in I, in declared order.
RECURSIVE NamesAt(_, _, _)
NamesAt(cols, I, i) ==
    IF i > Len(cols) THEN <<>>
    ELSE IF i \in I THEN << cols[i].name >> \o NamesAt(cols, I, i + 1)
    ELSE NamesAt(cols, I, i + 1)

\* 'UPDATE <table> SET <column>=$1, ..., <column>=$n WHERE <primaryKey>=$m'
\* over n >= 1 columns of the schema, with m = n + 1: every placeholder
\* $1..$m is used once.
WellFormedUpdate(S, sql, m) ==
    \E I \in (SUBSET (1..Len(S.columns))) \ { {} } :
        LET names == NamesAt(S.columns, I, 1)
            n == Len(names)
        IN  /\ m = n + 1
            /\ sql = "UPDATE " \o S.tableName \o " SET "
                       \o JoinWith([k \in 1..n |-> names[k] \o "=" \o Placeholder(k)], ", ")
                       \o " WHERE " \o S.primaryKey \o "=" \o Placeholder(m)

\* C30: for every schema with a non-empty column list and exactly one
\* primary-key column, the one whose only column is the primary key
\* included, the statement update builds is well formed: its SET clause
\* holds at least one '<column>=$k', its placeholders are $1..$m, each used
\* once, and m is the number of parameters buildUpdateParams supplies.
C30_UpdateWellFormed ==
    (last.op = "update" /\ Len(T.columns) >= 1 /\ PkCount(T) = 1) =>
        LET c == last.calls[1]
        IN  /\ c.params = buildUpdateParams(T, last.arg)
            /\ WellFormedUpdate(T, c.sql, Len(c.params))
====
